---- MODULE Spec2Model ----
(***************************************************************************)
(* Model of the Solana token analyzer: the multi-source resolvers, the     *)
(* relevance verifier, the engagement aggregator, the recommendation       *)
(* scorer (src/improved_analysis.py) and the two drivers that run them     *)
(* (main of src/app.py, test_improved_analysis of src/improved_analysis.py)*)
(*                                                                         *)
(* Text is modelled as a sequence of one-character strings, so that        *)
(* slicing, case folding and substring search are computed, not assumed.   *)
(***************************************************************************)
EXTENDS Integers, Sequences, FiniteSets, TLC

VARIABLES
    entry,              \* the entry point this behaviour runs
    pc,                 \* position of the run inside the entry point
    contract_address,   \* the identifier under analysis
    validated,          \* "unset", or the value validate_solana_contract returned
    ridx,               \* resolver loop: index of the source tried next
    calls,              \* log of external calls, in the order they were issued
    token_info,         \* result of the metadata resolver (None before it returns)
    price_data,         \* result of the market resolver (None before it returns)
    search_token_info,  \* token_info local to improved_social_media_search
    raised,             \* an exception escaped to the caller of the running function
    exa_client,         \* whether the search client was set up (a credential is configured)
    token_name,         \* the name handed to the search
    token_symbol,       \* the symbol handed to the search and to the verifier
    search_queries,     \* the queries built for the search
    social_results,     \* what the search returned to the driver (None before it returns)
    clock,              \* what int(time.time()) reads at each search of the run
    all_results,        \* the candidate mentions collected so far
    verified_results,   \* output of _verify_and_filter_results (empty before it runs)
    engagement_analysis,\* output of the engagement aggregator (None before it runs)
    recommendation      \* output of the recommendation scorer (None before it runs)

resolverVars == <<ridx, calls, token_info, price_data, search_token_info, raised>>
mentionVars == <<token_symbol, all_results, verified_results>>
searchVars == <<exa_client, clock, token_name, search_queries, social_results>>
vars == <<entry, pc, contract_address, validated, resolverVars, mentionVars, searchVars,
          engagement_analysis, recommendation>>

(***************************************************************************)
(* Text helpers (Python str operations used by the code).                  *)
(***************************************************************************)
UpperLetters == <<"A","B","C","D","E","F","G","H","I","J","K","L","M","N","O","P","Q","R","S","T","U","V","W","X","Y","Z">>
LowerLetters == <<"a","b","c","d","e","f","g","h","i","j","k","l","m","n","o","p","q","r","s","t","u","v","w","x","y","z">>

\* str.lower() on one character
LowerChar(c) ==
    IF \E i \in DOMAIN UpperLetters : UpperLetters[i] = c
    THEN LowerLetters[CHOOSE i \in DOMAIN UpperLetters : UpperLetters[i] = c]
    ELSE c

\* the element of a one-element set; Only({F(x) : x \in {e}}) is F(e) with e
\* worked out once
Only(S) == CHOOSE x \in S : TRUE

\* str.lower()
Lower(s) == Only({[i \in 1..Len(t) |-> LowerChar(t[i])] : t \in {s}})

\* s[a:b] with 0 <= a, Python slice semantics (clamped to the length)
Slice(s, a, b) ==
    LET hi == IF b > Len(s) THEN Len(s) ELSE b
    IN  IF a >= hi THEN <<>> ELSE SubSeq(s, a + 1, hi)

\* needle in hay (substring test)
Contains(hay, needle) ==
    \E h \in {hay} : \E n \in {needle} :
        \E i \in 0..(Len(h) - Len(n)) : \A k \in 1..Len(n) : h[i + k] = n[k]

\* dict.get(key, default)
Get(d, key, default) == IF key \in DOMAIN d THEN d[key] ELSE default

\* Python's None / a variable not yet assigned
None == [none |-> TRUE]

Min(a, b) == IF a <= b THEN a ELSE b

(***************************************************************************)
(* Literals of the code.                                                   *)
(***************************************************************************)
S_Token == <<"T","o","k","e","n"," ">>
S_Dots == <<".",".",".">>
S_UNKNOWN == <<"U","N","K","N","O","W","N">>
S_Unknown == <<"U","n","k","n","o","w","n">>
S_Zero == <<"0">>

\* the test contract of test_improved_analysis (44 characters, ends in "pump")
TestContract == <<"G","B","U","x","Q","F","R","X","Q","j","S","P","j","k","x","y","m","A","U","K","P","f","b","U","b","S","p","R","Y","8","U","i","7","a","z","1","H","C","x","t","p","u","m","p">>
\* the test contract of src/test_analysis.py
OtherContract == <<"6","z","s","N","X","P","k","p","G","H","a","f","8","p","7","1","w","T","h","V","T","x","r","5","f","h","t","G","8","y","K","H","w","2","T","r","k","i","K","q","p","u","m","p">>
\* an identifier with the 8-character prefix of TestContract and another tail
SamePrefixContract == Slice(TestContract, 0, 8) \o Slice(OtherContract, 8, 40)
\* scenario A of the specification: fails the length check
ShortContract == <<"a","b","c">>
\* the test contract with its first character replaced by "0", which is not base58
ZeroContract == <<"0">> \o Slice(TestContract, 1, 44)

Identifiers == {TestContract, OtherContract, SamePrefixContract, ShortContract}

(***************************************************************************)
(* validate_solana_contract                                                *)
(***************************************************************************)
MinAddressLen == 32
MaxAddressLen == 44
valid_chars == <<"1","2","3","4","5","6","7","8","9","A","B","C","D","E","F","G","H","J","K","L","M","N","P","Q","R","S","T","U","V","W","X","Y","Z","a","b","c","d","e","f","g","h","i","j","k","m","n","o","p","q","r","s","t","u","v","w","x","y","z">>

\* a variant whose length bounds are exclusive
validate_exclusive_bounds(addr) ==
    IF Len(addr) = 0 THEN FALSE
    ELSE IF Len(addr) <= MinAddressLen \/ Len(addr) >= MaxAddressLen THEN FALSE
    ELSE \A i \in 1..Len(addr) : \E j \in DOMAIN valid_chars : valid_chars[j] = addr[i]

validate_solana_contract(addr) ==
    IF Len(addr) = 0 THEN FALSE
    ELSE IF Len(addr) < MinAddressLen \/ Len(addr) > MaxAddressLen THEN FALSE
    ELSE \A i \in 1..Len(addr) : \E j \in DOMAIN valid_chars : valid_chars[j] = addr[i]

(***************************************************************************)
(* The provider responses the environment can give to one fetch.           *)
(*   exc    : requests.get raised (timeout, connection error)              *)
(*   status : the HTTP status of a response                                *)
(*   body   : "undecodable"  response.json() raises                        *)
(*            "not_object"   JSON that is not an object: data.get raises   *)
(*            "object"       a JSON object; usable says whether it holds   *)
(*                           the provider's result set (pairs / data[id]), *)
(*                           fields are the fields of the entry            *)
(***************************************************************************)
HTTP_OK == 200
RateLimited == 429

\* the statuses other than 200 a provider answers with (429, and any other one)
OtherStatuses == {RateLimited, 404}

S_PCAT == <<"P","C","A","T">>
S_PumpCat == <<"P","u","m","p"," ","C","a","t">>
S_150000 == <<"1","5","0","0","0","0">>
S_60000 == <<"6","0","0","0","0">>

\* the fields of a provider's entry the parsers read (a missing field is absent)
Payloads ==
    { <<>>,
      [name |-> S_PumpCat, symbol |-> S_PCAT, liquidity |-> S_150000, volume |-> S_60000] }

Responses ==
    {[exc |-> e] : e \in {"Timeout", "ConnectionError"}}
    \cup {[status |-> s] : s \in OtherStatuses}
    \cup {[status |-> HTTP_OK, body |-> b] : b \in {"undecodable", "not_object"}}
    \cup {[status |-> HTTP_OK, body |-> "object", usable |-> FALSE, fields |-> <<>>]}
    \cup {[status |-> HTTP_OK, body |-> "object", usable |-> TRUE, fields |-> f] : f \in Payloads}

\* a variant that puts the whole identifier into the name
PlaceholderNameWhole(addr) == S_Token \o addr \o S_Dots

\* f"Token {contract_address[:8]}..."
PrefixLen == 8
PlaceholderName(addr) == S_Token \o Slice(addr, 0, PrefixLen) \o S_Dots

DefaultDecimals == 9

(***************************************************************************)
(* The parsers. Each returns the parsed object, or [exception |-> kind]    *)
(* when the Python code raises inside the parser.                          *)
(***************************************************************************)
parse_dexscreener_token_info(data, addr) ==
    IF data.body = "not_object" THEN [exception |-> "AttributeError"]
    ELSE IF ~data.usable THEN [success |-> FALSE]
    ELSE [name |-> Get(data.fields, "name", PlaceholderName(addr)),
          symbol |-> Get(data.fields, "symbol", S_UNKNOWN),
          decimals |-> DefaultDecimals,
          supply |-> S_Unknown,
          success |-> TRUE,
          source |-> "DexScreener"]

parse_jupiter_token_info(data, addr) ==
    IF data.body = "not_object" THEN [exception |-> "AttributeError"]
    ELSE IF ~data.usable THEN [success |-> FALSE]
    ELSE [name |-> Get(data.fields, "name", PlaceholderName(addr)),
          symbol |-> Get(data.fields, "symbol", S_UNKNOWN),
          decimals |-> DefaultDecimals,
          supply |-> S_Unknown,
          success |-> TRUE,
          source |-> "Jupiter"]

\* Solscan's parser reads the top-level object and never reports success=false
parse_solscan_token_info(data, addr) ==
    IF data.body = "not_object" THEN [exception |-> "AttributeError"]
    ELSE LET f == IF data.usable THEN data.fields ELSE <<>>
         IN [name |-> Get(f, "name", Get(f, "symbol", PlaceholderName(addr))),
             symbol |-> Get(f, "symbol", S_UNKNOWN),
             decimals |-> DefaultDecimals,
             supply |-> S_Unknown,
             success |-> TRUE,
             source |-> "Solscan"]

parse_dexscreener_price_data(data, addr) ==
    IF data.body = "not_object" THEN [exception |-> "AttributeError"]
    ELSE IF ~data.usable THEN [success |-> FALSE]
    ELSE [price_usd |-> S_Zero,
          market_cap |-> S_Unknown,
          liquidity |-> Get(data.fields, "liquidity", S_Unknown),
          volume_24h |-> Get(data.fields, "volume", S_Unknown),
          price_change_24h |-> S_Unknown,
          dex |-> S_Unknown,
          success |-> TRUE,
          source |-> "DexScreener"]

parse_jupiter_price_data(data, addr) ==
    IF data.body = "not_object" THEN [exception |-> "AttributeError"]
    ELSE IF ~data.usable THEN [success |-> FALSE]
    ELSE [price_usd |-> S_Zero,
          market_cap |-> S_Unknown,
          liquidity |-> S_Unknown,
          volume_24h |-> S_Unknown,
          price_change_24h |-> S_Unknown,
          dex |-> S_Unknown,
          success |-> TRUE,
          source |-> "Jupiter"]

create_fallback_token_info(addr) ==
    [name |-> PlaceholderName(addr),
     symbol |-> S_UNKNOWN,
     decimals |-> DefaultDecimals,
     supply |-> S_Unknown,
     success |-> FALSE,
     fallback |-> TRUE,
     source |-> "Fallback"]

\* a variant of the fallback snapshot that reports zero liquidity and volume
create_fallback_price_data_zero ==
    [price_usd |-> S_Zero,
     market_cap |-> S_Unknown,
     liquidity |-> S_Zero,
     volume_24h |-> S_Zero,
     price_change_24h |-> S_Unknown,
     dex |-> S_Unknown,
     success |-> FALSE,
     fallback |-> TRUE,
     source |-> "Fallback"]

create_fallback_price_data ==
    [price_usd |-> S_Unknown,
     market_cap |-> S_Unknown,
     liquidity |-> S_Unknown,
     volume_24h |-> S_Unknown,
     price_change_24h |-> S_Unknown,
     dex |-> S_Unknown,
     success |-> FALSE,
     fallback |-> TRUE,
     source |-> "Fallback"]

(***************************************************************************)
(* The resolvers. One action is one iteration of the loop over the sources *)
(* (one fetch, its decoding, its parse and the decision taken on it); the  *)
(* environment chooses the response to the fetch.                          *)
(***************************************************************************)
token_sources ==
    << [name |-> "DexScreener", parser |-> "parse_dexscreener_token_info"],
       [name |-> "Jupiter API", parser |-> "parse_jupiter_token_info"],
       [name |-> "Solscan", parser |-> "parse_solscan_token_info"] >>

price_sources ==
    << [name |-> "DexScreener", parser |-> "parse_dexscreener_price_data"],
       [name |-> "Jupiter Price API", parser |-> "parse_jupiter_price_data"] >>

Sources(kind) == IF kind = "token" THEN token_sources ELSE price_sources

Parse(parser, data, addr) ==
    CASE parser = "parse_dexscreener_token_info" -> parse_dexscreener_token_info(data, addr)
      [] parser = "parse_jupiter_token_info" -> parse_jupiter_token_info(data, addr)
      [] parser = "parse_solscan_token_info" -> parse_solscan_token_info(data, addr)
      [] parser = "parse_dexscreener_price_data" -> parse_dexscreener_price_data(data, addr)
      [] parser = "parse_jupiter_price_data" -> parse_jupiter_price_data(data, addr)

\* a variant whose fallback objects carry no fallback flag
FallbackWithoutFlag(kind, addr) ==
    [success |-> FALSE, source |-> "Fallback"]

Fallback(kind, addr) ==
    IF kind = "token" THEN create_fallback_token_info(addr) ELSE create_fallback_price_data

\* the exception classes the fetch, the decoding and the parsers can raise;
\* all of them derive from Exception
ExceptionKinds == {"Timeout", "ConnectionError", "JSONDecodeError", "AttributeError"}

\* a variant that catches timeouts only
ExceptionCaughtTimeoutOnly(exc) == exc = "Timeout"

\* except Exception as e: continue
ExceptionCaught(exc) == exc \in ExceptionKinds

OnException(exc) ==
    IF ExceptionCaught(exc) THEN [act |-> "next"] ELSE [act |-> "raise", exc |-> exc]

\* a variant that goes on to the next source after a successful one
TrySourceKeepsGoing(kind, i, resp, addr) ==
    IF "exc" \in DOMAIN resp THEN OnException(resp.exc)
    ELSE IF resp.status = HTTP_OK /\ resp.body = "undecodable"
    THEN OnException("JSONDecodeError")
    ELSE [act |-> "next"]

\* the body of the for loop, for the source at position i and the response resp:
\* what the iteration does (return a value, go on to the next source, or raise)
TrySource(kind, i, resp, addr) ==
    IF "exc" \in DOMAIN resp THEN OnException(resp.exc)
    ELSE IF resp.status = HTTP_OK
    THEN IF resp.body = "undecodable" THEN OnException("JSONDecodeError")
         ELSE LET parsed == Parse(Sources(kind)[i].parser, resp, addr)
              IN  IF "exception" \in DOMAIN parsed THEN OnException(parsed.exception)
                  ELSE IF Get(parsed, "success", FALSE)
                       THEN [act |-> "return", value |-> parsed]
                       ELSE [act |-> "next"]
    ELSE [act |-> "next"]

\* whether a provider's fetch returned status 200 and its parser reported success
FetchSucceeds(kind, i, resp, addr) ==
    /\ "status" \in DOMAIN resp
    /\ resp.status = HTTP_OK
    /\ resp.body = "object"
    /\ Get(Parse(Sources(kind)[i].parser, resp, addr), "success", FALSE)

(***************************************************************************)
(* _verify_and_filter_results: the relevance verifier.                     *)
(***************************************************************************)
S_pump == <<"p","u","m","p">>
S_fun == <<"f","u","n">>
S_solana == <<"s","o","l","a","n","a">>
S_x_com == <<"x",".","c","o","m">>
S_twitter_com == <<"t","w","i","t","t","e","r",".","c","o","m">>
S_dollar == <<"$">>
S_space == <<" ">>

WindowLen == 8
WindowStride == 4
AddressPoints == 50
SymbolPoints == 30
ContextPoints == 20
PlatformPoints == 20
MetadataPoints == 10
VerificationThreshold == 70

\* range(0, len(contract_address)-7, 4)
WindowStarts(addr) == {i \in 0..(Len(addr) - WindowLen) : i % WindowStride = 0}

\* bool(x) of a str, a list or a dict
Truthy(x) == DOMAIN x # {}

\* the score the loop body accumulates for one result whose lower-cased text is content
accumulated_score(content, result, addr, symbol) ==
    LET url == Get(result, "url", <<>>)
        address_hit == \E i \in WindowStarts(addr) :
                           Contains(content, Lower(Slice(addr, i, i + WindowLen)))
        symbol_hit == /\ Truthy(symbol)
                      /\ symbol # S_UNKNOWN
                      /\ \/ Contains(content, Lower(symbol))
                         \/ Contains(content, S_dollar \o Lower(symbol))
        context_hit == /\ Contains(content, S_pump)
                       /\ (Contains(content, S_fun) \/ Contains(content, S_solana))
        platform_hit == Contains(url, S_x_com) \/ Contains(url, S_twitter_com)
        metadata_hit == Truthy(Get(result, "engagement", <<>>)) \/ Truthy(Get(result, "author", <<>>))
    IN  (IF address_hit THEN AddressPoints ELSE 0)
        + (IF symbol_hit THEN SymbolPoints ELSE 0)
        + (IF context_hit THEN ContextPoints ELSE 0)
        + (IF platform_hit THEN PlatformPoints ELSE 0)
        + (IF metadata_hit THEN MetadataPoints ELSE 0)

\* content = (title + " " + content).lower(), then the five checks
verification_score(result, addr, symbol) ==
    Only({accumulated_score(content, result, addr, symbol) :
            content \in {Lower(Get(result, "title", <<>>) \o S_space
                               \o Get(result, "content", <<>>))}})

\* result["verification_score"] = verification_score
WithScore(result, score) ==
    [k \in DOMAIN result \cup {"verification_score"} |->
        IF k = "verification_score" THEN score ELSE result[k]]

\* a variant that asks for more than the threshold
PassesStrictly(score) == score > VerificationThreshold

\* a variant with the threshold ten points lower
PassesFromSixty(score) == score >= VerificationThreshold - 10

\* if verification_score >= 70
Passes(score) == score >= VerificationThreshold

\* the loop body for one result: the object after it (written to when it passes) and
\* whether it was appended to verified_results
verify_one(result, addr, symbol) ==
    Only({IF Passes(score)
          THEN [result |-> WithScore(result, score), verified |-> TRUE]
          ELSE [result |-> result, verified |-> FALSE] :
            score \in {verification_score(result, addr, symbol)}})

\* for result in results, over the first n results
RECURSIVE verify_loop(_, _, _, _)
verify_loop(results, n, addr, symbol) ==
    IF n = 0 THEN <<>>
    ELSE Append(verify_loop(results, n - 1, addr, symbol),
                verify_one(results[n], addr, symbol))

\* the objects of the input list after the loop
RECURSIVE MarkedOf(_, _)
MarkedOf(loop, n) ==
    IF n = 0 THEN <<>> ELSE Append(MarkedOf(loop, n - 1), loop[n].result)

\* verified_results after the loop
VerifiedOf(loop) ==
    Only({MarkedOf(kept, Len(kept)) : kept \in {SelectSeq(loop, LAMBDA v : v.verified)}})

\* the input list after the call: the retained objects were written to in place
MarkedResults(results, addr, symbol) ==
    Only({MarkedOf(loop, Len(loop)) :
            loop \in {verify_loop(results, Len(results), addr, symbol)}})

\* the list the function returns
verify_and_filter_results(results, addr, symbol) ==
    VerifiedOf(verify_loop(results, Len(results), addr, symbol))

(***************************************************************************)
(* analyze_verified_social_engagement: the engagement aggregator.          *)
(* Scores are kept in tenths (engagement_score 45.7 is 457): the only      *)
(* division of the code is by 10, so every value is a whole number of      *)
(* tenths and round(x, 1) leaves it unchanged.                             *)
(***************************************************************************)
Tenths == 10
MentionPoints == 15
MaxMentionPoints == 60
EngagementDivisor == 10
MaxEngagementBonus == 30
NotablePoints == 10
MaxEngagementScore == 100
NotableLikes == 100
RetweetWeight == 2

notable_patterns == { <<"c","r","y","p","t","o">>, S_solana, <<"d","e","f","i">>, <<"t","r","a","d","e","r">> }

RECURSIVE SumOver(_, _)
SumOver(results, key) ==
    IF results = <<>> THEN 0
    ELSE Get(Get(Head(results), "engagement", <<>>), key, 0) + SumOver(Tail(results), key)

\* a variant that takes likes >= 100 for notable
NotableAccountsAtLeast(results) ==
    { Lower(Get(results[i], "author", <<>>)) : i \in
        { j \in 1..Len(results) :
            /\ \E pattern \in notable_patterns :
                   Contains(Lower(Get(results[j], "author", <<>>)), pattern)
            /\ Get(Get(results[j], "engagement", <<>>), "likes", 0) >= NotableLikes } }

\* the authors the loop appends to notable_accounts, as a set (set(notable_accounts))
NotableAccounts(results) ==
    { Lower(Get(results[i], "author", <<>>)) : i \in
        { j \in 1..Len(results) :
            /\ \E pattern \in notable_patterns :
                   Contains(Lower(Get(results[j], "author", <<>>)), pattern)
            /\ Get(Get(results[j], "engagement", <<>>), "likes", 0) > NotableLikes } }

\* a variant without the band from 10 to 30
EngagementLevelWithoutLow(final_score) ==
    IF final_score >= 80 * Tenths THEN "Very High"
    ELSE IF final_score >= 60 * Tenths THEN "High"
    ELSE IF final_score >= 30 * Tenths THEN "Moderate"
    ELSE "Very Low"

EngagementLevel(final_score) ==
    IF final_score >= 80 * Tenths THEN "Very High"
    ELSE IF final_score >= 60 * Tenths THEN "High"
    ELSE IF final_score >= 30 * Tenths THEN "Moderate"
    ELSE IF final_score >= 10 * Tenths THEN "Low"
    ELSE "Very Low"

EngagementRisk(final_score) ==
    IF final_score >= 80 * Tenths THEN "Low - Strong Community"
    ELSE IF final_score >= 60 * Tenths THEN "Medium - Good Community"
    ELSE IF final_score >= 30 * Tenths THEN "High - Limited Community"
    ELSE IF final_score >= 10 * Tenths THEN "Very High - Minimal Interest"
    ELSE "Extremely High - No Community"

\* a variant that leaves out the cap of 100
FinalScoreUncapped(base_score, engagement_bonus, notable_bonus) ==
    base_score + engagement_bonus + notable_bonus

\* final_score = min(base_score + engagement_bonus + notable_bonus, 100)
FinalScore(base_score, engagement_bonus, notable_bonus) ==
    Min(base_score + engagement_bonus + notable_bonus, MaxEngagementScore * Tenths)

\* the summary returned for a non-empty list, from the totals and the final score
engagement_summary(results, notable, total_likes, total_retweets, total_replies, final_score) ==
    [engagement_score |-> final_score,
     notable_accounts |-> notable,
     total_mentions |-> Len(results),
     engagement_level |-> EngagementLevel(final_score),
     risk_assessment |-> EngagementRisk(final_score),
     authentic_mentions |-> Len(results),
     total_engagement |-> [likes |-> total_likes, retweets |-> total_retweets,
                           replies |-> total_replies]]

\* the scoring of a non-empty list, from the totals of the loop
engagement_scoring(results, notable, total_likes, total_retweets, total_replies) ==
    LET base_score == Min(Len(results) * MentionPoints, MaxMentionPoints) * Tenths
        engagement_bonus ==
            Min(((total_likes + total_retweets * RetweetWeight) * Tenths) \div EngagementDivisor,
                MaxEngagementBonus * Tenths)
        notable_bonus == Cardinality(notable) * NotablePoints * Tenths
    IN  Only({engagement_summary(results, notable, total_likes, total_retweets, total_replies,
                                 final_score) :
                final_score \in {FinalScore(base_score, engagement_bonus, notable_bonus)}})

analyze_verified_social_engagement(results) ==
    IF results = <<>>
    THEN [engagement_score |-> 0,
          notable_accounts |-> {},
          total_mentions |-> 0,
          engagement_level |-> "None",
          risk_assessment |-> "Very High - No Social Media Presence",
          authentic_mentions |-> 0]
    ELSE Only({engagement_scoring(results, t[1], t[2], t[3], t[4]) :
                 t \in {<<NotableAccounts(results), SumOver(results, "likes"),
                          SumOver(results, "retweets"), SumOver(results, "replies")>>}})

(***************************************************************************)
(* generate_accurate_investment_recommendation: the recommendation scorer. *)
(* A market value is the text str() gives for it. float() of a text made   *)
(* of digits, dots and commas is modelled by its whole part, which decides *)
(* every comparison with the whole-number thresholds.                      *)
(***************************************************************************)
DigitChars == <<"0","1","2","3","4","5","6","7","8","9">>

IsDigitChar(c) == \E i \in DOMAIN DigitChars : DigitChars[i] = c
DigitValue(c) == (CHOOSE i \in DOMAIN DigitChars : DigitChars[i] = c) - 1

\* s.replace(c, "")
Remove(s, c) == SelectSeq(s, LAMBDA x : x # c)

\* str.isdigit()
IsDigitStr(s) == Len(s) > 0 /\ \A i \in 1..Len(s) : IsDigitChar(s[i])

\* liquidity_str.replace(".", "").replace(",", "").isdigit()
LooksNumeric(s) == IsDigitStr(Remove(Remove(s, "."), ","))

\* float(s.replace(",", "")) raises ValueError on a second decimal point
FloatRaises(s) == Len(SelectSeq(s, LAMBDA x : x = ".")) > 1

\* the number the first n characters of s write, s being made of digits
RECURSIVE DigitsToInt(_, _)
DigitsToInt(s, n) ==
    IF n = 0 THEN 0 ELSE DigitsToInt(s, n - 1) * 10 + DigitValue(s[n])

\* the whole part of float(t), for t with at most one "."
WholePart(t) ==
    IF \E i \in 1..Len(t) : t[i] = "."
    THEN DigitsToInt(t, (CHOOSE i \in 1..Len(t) : t[i] = ".") - 1)
    ELSE DigitsToInt(t, Len(t))

\* the whole part of float(s.replace(",", "")), for s with at most one "."
FloatFloor(s) == Only({WholePart(t) : t \in {Remove(s, ",")}})

StrongMarket == 100000
ModerateMarket == 25000
StrongMarketPoints == 20
ModerateMarketPoints == 10

\* a variant that gives the moderate band more than the strong one
MarketBlockSwapped(text, what) ==
    IF LooksNumeric(text)
    THEN IF FloatRaises(text) THEN [error |-> TRUE, points |-> 0]
         ELSE Only({IF value >= StrongMarket
                    THEN [error |-> FALSE, points |-> ModerateMarketPoints,
                          reason |-> [about |-> what, kind |-> "strong", value |-> value]]
                    ELSE IF value >= ModerateMarket
                    THEN [error |-> FALSE, points |-> StrongMarketPoints,
                          reason |-> [about |-> what, kind |-> "moderate", value |-> value]]
                    ELSE [error |-> FALSE, points |-> 0,
                          reason |-> [about |-> what, kind |-> "low", value |-> value]] :
                      value \in {FloatFloor(text)}})
    ELSE [error |-> FALSE, points |-> 0, reason |-> [about |-> what, kind |-> "unknown"]]

\* one of the two blocks inside the try: what it adds and the reason it appends,
\* or error when float() raises
MarketBlock(text, what) ==
    IF LooksNumeric(text)
    THEN IF FloatRaises(text) THEN [error |-> TRUE, points |-> 0]
         ELSE Only({IF value >= StrongMarket
                    THEN [error |-> FALSE, points |-> StrongMarketPoints,
                          reason |-> [about |-> what, kind |-> "strong", value |-> value]]
                    ELSE IF value >= ModerateMarket
                    THEN [error |-> FALSE, points |-> ModerateMarketPoints,
                          reason |-> [about |-> what, kind |-> "moderate", value |-> value]]
                    ELSE [error |-> FALSE, points |-> 0,
                          reason |-> [about |-> what, kind |-> "low", value |-> value]] :
                      value \in {FloatFloor(text)}})
    ELSE [error |-> FALSE, points |-> 0, reason |-> [about |-> what, kind |-> "unknown"]]

UnableReason == [about |-> "market", kind |-> "unable"]

\* the try block: liquidity, then volume, left at the first ValueError
MarketAnalysis(price) ==
    Only({IF liq.error THEN [points |-> 0, reasons |-> <<UnableReason>>]
          ELSE Only({IF vol.error
                     THEN [points |-> liq.points, reasons |-> <<liq.reason, UnableReason>>]
                     ELSE [points |-> liq.points + vol.points,
                           reasons |-> <<liq.reason, vol.reason>>] :
                       vol \in {MarketBlock(Get(price, "volume_24h", S_Zero), "volume")}}) :
            liq \in {MarketBlock(Get(price, "liquidity", S_Zero), "liquidity")}})

StrongSocial == 70
ModerateSocial == 40
StrongSocialPoints == 40
ModerateSocialPoints == 25
WeakSocialPoints == 10
ManyNotable == 3
ManyNotablePoints == 20
SomeNotablePoints == 10

\* a variant whose first cutoff is exclusive
SocialBlockAboveStrong(social) ==
    LET social_score == Get(social, "engagement_score", 0)
        authentic_mentions == Get(social, "authentic_mentions", 0)
    IN  IF authentic_mentions = 0
        THEN [points |-> 0, reason |-> [about |-> "social", kind |-> "none"]]
        ELSE IF social_score > StrongSocial * Tenths
        THEN [points |-> StrongSocialPoints,
              reason |-> [about |-> "social", kind |-> "strong", value |-> authentic_mentions]]
        ELSE IF social_score >= ModerateSocial * Tenths
        THEN [points |-> ModerateSocialPoints,
              reason |-> [about |-> "social", kind |-> "moderate", value |-> authentic_mentions]]
        ELSE [points |-> WeakSocialPoints,
              reason |-> [about |-> "social", kind |-> "weak", value |-> authentic_mentions]]

\* a variant that gives the weak points also when there is no authentic mention
SocialBlockWeakForNone(social) ==
    LET social_score == Get(social, "engagement_score", 0)
        authentic_mentions == Get(social, "authentic_mentions", 0)
    IN  IF social_score >= StrongSocial * Tenths /\ authentic_mentions # 0
        THEN [points |-> StrongSocialPoints,
              reason |-> [about |-> "social", kind |-> "strong", value |-> authentic_mentions]]
        ELSE IF social_score >= ModerateSocial * Tenths /\ authentic_mentions # 0
        THEN [points |-> ModerateSocialPoints,
              reason |-> [about |-> "social", kind |-> "moderate", value |-> authentic_mentions]]
        ELSE [points |-> WeakSocialPoints,
              reason |-> [about |-> "social", kind |-> "weak", value |-> authentic_mentions]]

SocialBlock(social) ==
    LET social_score == Get(social, "engagement_score", 0)
        authentic_mentions == Get(social, "authentic_mentions", 0)
    IN  IF authentic_mentions = 0
        THEN [points |-> 0, reason |-> [about |-> "social", kind |-> "none"]]
        ELSE IF social_score >= StrongSocial * Tenths
        THEN [points |-> StrongSocialPoints,
              reason |-> [about |-> "social", kind |-> "strong", value |-> authentic_mentions]]
        ELSE IF social_score >= ModerateSocial * Tenths
        THEN [points |-> ModerateSocialPoints,
              reason |-> [about |-> "social", kind |-> "moderate", value |-> authentic_mentions]]
        ELSE [points |-> WeakSocialPoints,
              reason |-> [about |-> "social", kind |-> "weak", value |-> authentic_mentions]]

\* a variant that awards the points of one notable account to each of them
NotableBlockPerAccount(social) ==
    LET n == Cardinality(Get(social, "notable_accounts", {}))
    IN  IF n >= 1
        THEN [points |-> n * SomeNotablePoints,
              reason |-> [about |-> "notable", kind |-> "some", value |-> n]]
        ELSE [points |-> 0, reason |-> [about |-> "notable", kind |-> "none"]]

NotableBlock(social) ==
    LET n == Cardinality(Get(social, "notable_accounts", {}))
    IN  IF n >= ManyNotable
        THEN [points |-> ManyNotablePoints,
              reason |-> [about |-> "notable", kind |-> "many", value |-> n]]
        ELSE IF n >= 1
        THEN [points |-> SomeNotablePoints,
              reason |-> [about |-> "notable", kind |-> "some", value |-> n]]
        ELSE [points |-> 0, reason |-> [about |-> "notable", kind |-> "none"]]

\* a variant whose first band starts five points lower
RecommendationLabelFromEighty(score) ==
    IF score >= 80 THEN "STRONG BUY - High Confidence"
    ELSE IF score >= 65 THEN "MODERATE BUY - Medium Confidence"
    ELSE IF score >= 45 THEN "CAUTION - Low Confidence"
    ELSE IF score >= 25 THEN "AVOID - Very Low Confidence"
    ELSE "STRONG AVOID - No Confidence"

RecommendationLabel(score) ==
    IF score >= 85 THEN "STRONG BUY - High Confidence"
    ELSE IF score >= 65 THEN "MODERATE BUY - Medium Confidence"
    ELSE IF score >= 45 THEN "CAUTION - Low Confidence"
    ELSE IF score >= 25 THEN "AVOID - Very Low Confidence"
    ELSE "STRONG AVOID - No Confidence"

RiskLevel(score) ==
    IF score >= 85 THEN "Low"
    ELSE IF score >= 65 THEN "Medium"
    ELSE IF score >= 45 THEN "High"
    ELSE IF score >= 25 THEN "Very High"
    ELSE "Extremely High"

\* a variant that repeats the confidence word of the label
ConfidenceOfLabel(score) == IF score >= 85 THEN "High" ELSE IF score >= 65 THEN "Medium" ELSE "Low"

Confidence(score) == IF score >= 65 THEN "High" ELSE IF score >= 45 THEN "Medium" ELSE "Low"

\* the recommendation for a score and the reasons that led to it
accurate_recommendation(score, reasons) ==
    [recommendation |-> RecommendationLabel(score),
     score |-> score,
     risk_level |-> RiskLevel(score),
     reasons |-> reasons,
     confidence |-> Confidence(score)]

\* a variant that takes ten points off when the token metadata is the fallback
generate_recommendation_reading_token(token_data, price, social) ==
    Only({accurate_recommendation(
              IF Get(token_data, "fallback", FALSE) /\ total >= 10 THEN total - 10 ELSE total,
              <<b[1].reason, b[2].reason>> \o b[3].reasons) :
            b \in {<<SocialBlock(social), NotableBlock(social), MarketAnalysis(price)>>},
            total \in {SocialBlock(social).points + NotableBlock(social).points
                       + MarketAnalysis(price).points}})

generate_accurate_investment_recommendation(token_data, price, social) ==
    Only({accurate_recommendation(b[1].points + b[2].points + b[3].points,
                                  <<b[1].reason, b[2].reason>> \o b[3].reasons) :
            b \in {<<SocialBlock(social), NotableBlock(social), MarketAnalysis(price)>>}})

(***************************************************************************)
(* The first analyzer (app.py): its validator, its two resolvers, its      *)
(* search through the Exa client, its aggregator and its scorer.           *)
(***************************************************************************)
app_validate_solana_contract(addr) ==
    IF addr = <<>> THEN FALSE
    ELSE IF Len(addr) < MinAddressLen \/ Len(addr) > MaxAddressLen THEN FALSE
    ELSE \A i \in 1..Len(addr) : \E j \in 1..Len(valid_chars) : valid_chars[j] = addr[i]

app_endpoints == <<"api.solscan.io/token/meta", "public-api.solscan.io/token/meta">>

S_UnknownToken == <<"U","n","k","n","o","w","n"," ","T","o","k","e","n">>
S_NoTradingData == <<"N","o"," ","t","r","a","d","i","n","g"," ","d","a","t","a">>
S_NoLiquidity == <<"N","o"," ","l","i","q","u","i","d","i","t","y">>
S_NoneText == <<"N","o","n","e">>

\* except requests.exceptions.Timeout / except Exception
app_exception_caught(exc) == exc = "Timeout" \/ exc \in ExceptionKinds

app_on_exception(exc) ==
    IF app_exception_caught(exc) THEN [act |-> "next"] ELSE [act |-> "raise", exc |-> exc]

\* the body of "for url in endpoints" for the response resp: a 200 response whose
\* body is a JSON object is returned with success=True whatever it holds
app_try_endpoint(resp) ==
    IF "exc" \in DOMAIN resp THEN app_on_exception(resp.exc)
    ELSE IF resp.status = HTTP_OK
    THEN IF resp.body = "undecodable" THEN app_on_exception("JSONDecodeError")
         ELSE IF resp.body = "not_object" THEN app_on_exception("AttributeError")
         ELSE [act |-> "return",
               value |-> [name |-> Get(resp.fields, "name",
                                       Get(resp.fields, "symbol", S_UnknownToken)),
                          symbol |-> Get(resp.fields, "symbol", S_UNKNOWN),
                          decimals |-> DefaultDecimals,
                          supply |-> S_Unknown,
                          success |-> TRUE]]
    ELSE [act |-> "next"]

app_fallback_token_info(addr) ==
    [name |-> PlaceholderName(addr),
     symbol |-> S_UNKNOWN,
     decimals |-> DefaultDecimals,
     supply |-> S_Unknown,
     success |-> FALSE,
     fallback |-> TRUE]

app_fallback_price_data ==
    [price_usd |-> S_Unknown,
     market_cap |-> S_Unknown,
     liquidity |-> S_Unknown,
     volume_24h |-> S_Unknown,
     price_change_24h |-> S_Unknown,
     dex |-> S_Unknown,
     success |-> FALSE,
     fallback |-> TRUE]

\* get_token_price_data for the response resp to its one fetch
get_token_price_data(resp) ==
    LET failed(exc) == IF app_exception_caught(exc)
                       THEN [act |-> "return", value |-> app_fallback_price_data]
                       ELSE [act |-> "raise", exc |-> exc]
    IN  IF "exc" \in DOMAIN resp THEN failed(resp.exc)
        ELSE IF resp.status = HTTP_OK
        THEN IF resp.body = "undecodable" THEN failed("JSONDecodeError")
             ELSE IF resp.body = "not_object" THEN failed("AttributeError")
             ELSE IF resp.usable
                  THEN [act |-> "return",
                        value |-> [price_usd |-> S_Zero,
                                   market_cap |-> S_Unknown,
                                   liquidity |-> Get(resp.fields, "liquidity", S_Unknown),
                                   volume_24h |-> Get(resp.fields, "volume", S_Unknown),
                                   price_change_24h |-> S_Unknown,
                                   dex |-> S_Unknown,
                                   success |-> TRUE]]
                  ELSE [act |-> "return",
                        value |-> [price_usd |-> S_Zero,
                                   market_cap |-> S_NoTradingData,
                                   liquidity |-> S_NoLiquidity,
                                   volume_24h |-> S_Zero,
                                   price_change_24h |-> S_Zero,
                                   dex |-> S_NoneText,
                                   success |-> FALSE,
                                   fallback |-> TRUE]]
        ELSE [act |-> "return", value |-> app_fallback_price_data]

\* the queries of search_x_mentions
app_queries(addr, name, symbol) ==
    <<<<"s","i","t","e",":","x",".","c","o","m"," ","\"">> \o addr \o <<"\"">>>>
    \o (IF name # <<>> /\ name # S_Unknown
        THEN <<<<"s","i","t","e",":","x",".","c","o","m"," ","\"">> \o name \o <<"\""," ","S","o","l","a","n","a"," ","t","o","k","e","n">>>> ELSE <<>>)
    \o (IF symbol # <<>> /\ symbol # S_Unknown
        THEN <<<<"s","i","t","e",":","x",".","c","o","m"," ","\"","$">> \o symbol \o <<"\""," ","S","o","l","a","n","a"," ","m","e","m","e","c","o","i","n">>>> ELSE <<>>)

\* what one exa_client.search call can do: raise, or return a list of results
R_plain == [title |-> <<"N","e","w"," ","g","e","m">>, text |-> <<"P","C","A","T"," ","t","o"," ","t","h","e"," ","m","o","o","n">>, url |-> <<"h","t","t","p","s",":","/","/","x",".","c","o","m","/","a","/","s","t","a","t","u","s","/","1">>]
R_notable == [title |-> <<"@","S","o","l","a","n","a"," ","n","e","w","s">>, text |-> <<"P","C","A","T"," ","l","i","s","t","e","d">>, url |-> <<"h","t","t","p","s",":","/","/","x",".","c","o","m","/","b","/","s","t","a","t","u","s","/","2">>]

ExaOutcomes ==
    {[exc |-> "SearchError"]} \cup {[results |-> r] : r \in {<<>>, <<R_plain>>, <<R_notable>>}}

RECURSIVE app_collect(_)
app_collect(outcomes) ==
    IF outcomes = <<>> THEN <<>>
    ELSE (IF "exc" \in DOMAIN Head(outcomes) THEN <<>> ELSE Head(outcomes).results)
         \o app_collect(Tail(outcomes))

\* search_x_mentions, outcomes[q] being what the search for the q-th query does
search_x_mentions(client, addr, name, symbol, outcomes) ==
    IF ~client THEN [success |-> FALSE, error |-> "Exa client not initialized"]
    ELSE LET found == app_collect(outcomes)
         IN  [success |-> TRUE, total_mentions |-> Len(found), results |-> found]

app_notable_patterns ==
    { <<"@","e","l","o","n","m","u","s","k">>, <<"@","s","t","o","o","l","p","r","e","s","i","d","e","n","t","e">>,
      <<"@","V","i","t","a","l","i","k","B","u","t","e","r","i","n">>, <<"@","b","i","n","a","n","c","e">>,
      <<"@","c","o","i","n","b","a","s","e">>, <<"@","c","z","_","b","i","n","a","n","c","e">>,
      <<"@","k","r","a","k","e","n","f","x">>, <<"@","o","k","x">>,
      <<"@","j","u","s","t","i","n","s","u","n","t","r","o","n">>, <<"@","b","g","a","r","l","i","n","g","h","o","u","s","e">>,
      <<"@","s","a","y","l","o","r">>, <<"@","n","o","v","o","g","r","a","t","z">>,
      <<"@","a","l","t","c","o","i","n","g","o","r","d","o","n">>, <<"@","w","h","a","l","e","c","h","a","r","t">>,
      <<"@","t","h","e","c","r","y","p","t","o","l","a","r","k">>, <<"@","c","r","y","p","t","o","c","o","b","a","i","n">>,
      <<"@","p","e","n","t","o","s","h","1">>, <<"@","h","s","a","k","a">>,
      <<"@","s","c","o","t","t","m","e","l","k","e","r">>, <<"@","c","r","y","p","t","o","k","a","l","e","o">>,
      <<"@","s","o","l","a","n","a">>, <<"@","a","e","y","a","k","o","v","e","n","k","o">>,
      <<"@","r","a","j","g","o","k","a","l">>, <<"@","s","t","e","p","n","o","f","f","i","c","i","a","l">>,
      <<"@","c","o","i","n","t","e","l","e","g","r","a","p","h">>, <<"@","c","o","i","n","d","e","s","k">>,
      <<"@","b","l","o","c","k","c","h","a","i","n">>, <<"@","c","r","y","p","t","o">> }

positive_words ==
    { <<"v","i","r","a","l">>, <<"m","o","o","n">>, <<"p","u","m","p">>,
      <<"t","r","e","n","d","i","n","g">>, <<"b","u","l","l","i","s","h">>, <<"g","e","m">>,
      <<"d","i","a","m","o","n","d">>, <<"h","o","l","d">>, <<"h","o","d","l">>,
      <<"r","o","c","k","e","t">>, <<"l","a","m","b","o">>, <<"a","t","h">>,
      <<"b","r","e","a","k","o","u","t">>, <<"r","a","l","l","y">>, <<"s","u","r","g","e">>,
      <<"e","x","p","l","o","d","i","n","g">>, <<"f","i","r","e">>, <<"h","u","g","e">>,
      <<"m","a","s","s","i","v","e">> }

negative_words ==
    { <<"s","c","a","m">>, <<"r","u","g">>, <<"d","u","m","p">>,
      <<"b","e","a","r","i","s","h">>, <<"a","v","o","i","d">>, <<"d","e","a","d">>,
      <<"r","e","k","t">>, <<"c","r","a","s","h">>, <<"t","a","n","k","i","n","g">>,
      <<"f","a","l","l","i","n","g">>, <<"l","o","s","i","n","g">>, <<"p","a","n","i","c">>,
      <<"s","e","l","l">>, <<"w","a","r","n","i","n","g">>, <<"c","a","u","t","i","o","n">>,
      <<"s","k","e","t","c","h","y">>, <<"s","u","s">> }

AppMentionPoints == 10
AppMaxScore == 100
AppNotablePoints == 20
AppHigh == 70
AppMedium == 40
AppLow == 10

\* the summary returned for n results, from what the loop collected
app_engagement_summary(n, notable, positive, negative, engagement_score) ==
    [engagement_score |-> engagement_score,
     notable_accounts |-> notable,
     total_mentions |-> n,
     engagement_level |-> IF engagement_score >= AppHigh THEN "High"
                          ELSE IF engagement_score >= AppMedium THEN "Medium"
                          ELSE IF engagement_score >= AppLow THEN "Low"
                          ELSE "None",
     risk_assessment |-> IF engagement_score >= AppHigh THEN "Low"
                         ELSE IF engagement_score >= AppMedium THEN "Medium"
                         ELSE IF engagement_score >= AppLow THEN "High"
                         ELSE "Very High",
     positive_indicators |-> positive,
     negative_indicators |-> negative]

\* the loop over the results, texts being their lower-cased title + " " + text
app_engagement_loop(texts) ==
    LET n == Len(texts)
        notable == {p \in app_notable_patterns :
                       \E i \in 1..n : Contains(texts[i], Lower(p))}
        positive == {i \in 1..n : \E w \in positive_words : Contains(texts[i], w)}
        negative == {i \in (1..n) \ positive : \E w \in negative_words : Contains(texts[i], w)}
    IN  Only({app_engagement_summary(
                  n, t[1], t[2], t[3],
                  Min(Min(n * AppMentionPoints, AppMaxScore)
                      + Cardinality(t[1]) * AppNotablePoints, AppMaxScore)) :
                t \in {<<notable, Cardinality(positive), Cardinality(negative)>>}})

analyze_social_engagement(search_results) ==
    IF search_results = <<>>
    THEN [engagement_score |-> 0,
          notable_accounts |-> {},
          total_mentions |-> 0,
          engagement_level |-> "None",
          risk_assessment |-> "Very High"]
    ELSE Only({app_engagement_loop(texts) :
                 texts \in {[i \in 1..Len(search_results) |->
                                Lower(search_results[i].title \o S_space
                                      \o search_results[i].text)]}})

\* the summary main builds itself when the search did not succeed
app_empty_engagement ==
    [engagement_score |-> 0,
     notable_accounts |-> {},
     total_mentions |-> 0,
     risk_assessment |-> "Very High"]

\* a variant that hands no summary on when the search did not succeed
app_engagement_or_nothing(social) ==
    IF Get(social, "success", FALSE)
    THEN analyze_social_engagement(Get(social, "results", <<>>))
    ELSE None

\* if social_results.get("success"): ... else: engagement_analysis = {...}
app_engagement_for(social) ==
    IF Get(social, "success", FALSE)
    THEN analyze_social_engagement(Get(social, "results", <<>>))
    ELSE app_empty_engagement

\* float(text) of app.py: no thousands separators are stripped
AppFloatOk(s) == IsDigitStr(Remove(s, ".")) /\ ~FloatRaises(s)

AppSocialWeight == 4
AppStrongLiquidity == 100000
AppModerateLiquidity == 50000
AppGoodVolume == 50000
AppModerateVolume == 10000
AppStrongBuy == 80
AppModerateBuy == 60
AppCaution == 40

app_market_block(text, strong, moderate, what) ==
    IF ~AppFloatOk(text) THEN [points |-> 0, reason |-> [about |-> what, kind |-> "unknown"]]
    ELSE IF FloatFloor(text) >= strong
         THEN [points |-> StrongMarketPoints, reason |-> [about |-> what, kind |-> "strong"]]
    ELSE IF FloatFloor(text) >= moderate
         THEN [points |-> ModerateMarketPoints, reason |-> [about |-> what, kind |-> "moderate"]]
    ELSE [points |-> 0, reason |-> [about |-> what, kind |-> "low"]]

\* the notable-accounts block of generate_investment_recommendation
app_notable_block(notable_accounts) ==
    IF Cardinality(notable_accounts) >= ManyNotable
    THEN [points |-> ManyNotablePoints,
          reason |-> [about |-> "notable", kind |-> "many",
                      count |-> Cardinality(notable_accounts)]]
    ELSE IF Cardinality(notable_accounts) >= 1
    THEN [points |-> SomeNotablePoints,
          reason |-> [about |-> "notable", kind |-> "some",
                      count |-> Cardinality(notable_accounts)]]
    ELSE [points |-> 0, reason |-> [about |-> "notable", kind |-> "none"]]

\* the recommendation for a score (in tenths of a point) and the reasons that led to it
app_recommendation(score, reasons) ==
    [recommendation |-> IF score >= AppStrongBuy * Tenths THEN "STRONG BUY"
                        ELSE IF score >= AppModerateBuy * Tenths THEN "MODERATE BUY"
                        ELSE IF score >= AppCaution * Tenths THEN "CAUTION"
                        ELSE "AVOID",
     score |-> score,
     risk_level |-> IF score >= AppStrongBuy * Tenths THEN "Low"
                    ELSE IF score >= AppModerateBuy * Tenths THEN "Medium"
                    ELSE IF score >= AppCaution * Tenths THEN "High"
                    ELSE "Very High",
     reasons |-> reasons]

\* generate_investment_recommendation; the score is in tenths of a point
generate_investment_recommendation(token_data, price, social) ==
    LET social_score == Get(social, "engagement_score", 0)
        social_reason == [about |-> "social",
                          kind |-> IF social_score >= AppHigh THEN "strong"
                                   ELSE IF social_score >= AppMedium THEN "moderate"
                                   ELSE "weak"]
    IN  Only({app_recommendation(
                  social_score * AppSocialWeight
                  + (b[1].points + b[2].points + b[3].points) * Tenths,
                  <<social_reason, b[1].reason, b[2].reason, b[3].reason>>) :
                b \in {<<app_notable_block(Get(social, "notable_accounts", {})),
                         app_market_block(Get(price, "liquidity", S_Zero),
                                          AppStrongLiquidity, AppModerateLiquidity,
                                          "liquidity"),
                         app_market_block(Get(price, "volume_24h", S_Zero),
                                          AppGoodVolume, AppModerateVolume, "volume")>>}})

(***************************************************************************)
(* The search of the improved analyzer: its queries and the simulated      *)
(* search (pictographs of the post texts are left out).                    *)
(***************************************************************************)
MaxSymbolLen == 6
LongPrefixLen == 16
MidPrefixLen == 12
MaxQueries == 5

S_meme == <<"m","e","m","e">>
S_pump_fun == <<"p","u","m","p",".","f","u","n">>
S_quote == <<"\"">>

create_targeted_search_queries(addr, name, symbol) ==
    (IF Contains(Lower(addr), S_pump)
        \/ \E keyword \in {S_pump, S_meme} : Contains(Lower(name), keyword)
     THEN << <<"s","i","t","e",":","x",".","c","o","m"," ","\"","p","u","m","p",".","f","u","n","\""," ","\"">> \o Slice(addr, 0, MidPrefixLen) \o S_quote,
             <<"s","i","t","e",":","t","w","i","t","t","e","r",".","c","o","m"," ","\"","p","u","m","p",".","f","u","n","\""," ","\"">> \o Slice(addr, 0, PrefixLen) \o S_quote,
             <<"s","i","t","e",":","x",".","c","o","m"," ","\"","p","u","m","p"," ","f","u","n","\""," ","\"">> \o Slice(addr, 0, MidPrefixLen) \o S_quote >>
     ELSE <<>>)
    \o (IF symbol # <<>> /\ symbol # S_UNKNOWN /\ Len(symbol) <= MaxSymbolLen
        THEN << <<"s","i","t","e",":","x",".","c","o","m"," ","\"","$">> \o symbol \o <<"\""," ","s","o","l","a","n","a"," ","p","u","m","p">>,
                <<"s","i","t","e",":","t","w","i","t","t","e","r",".","c","o","m"," ","\"">> \o symbol \o <<"\""," ","p","u","m","p",".","f","u","n">>,
                <<"s","i","t","e",":","x",".","c","o","m"," ","\"","$">> \o symbol \o <<"\""," ","\"","j","u","s","t"," ","l","a","u","n","c","h","e","d","\"">> >>
        ELSE <<>>)
    \o << <<"s","i","t","e",":","x",".","c","o","m"," ","\"">> \o Slice(addr, 0, LongPrefixLen) \o <<".",".",".","\""," ","s","o","l","a","n","a">>,
          <<"s","i","t","e",":","t","w","i","t","t","e","r",".","c","o","m"," ","\"">> \o Slice(addr, 0, MidPrefixLen) \o <<"\""," ","p","u","m","p">>,
          <<"s","i","t","e",":","x",".","c","o","m"," ","\"">> \o Slice(addr, 0, PrefixLen) \o <<"\""," ","m","e","m","e","c","o","i","n">> >>
    \o << <<"s","i","t","e",":","x",".","c","o","m"," ","\"","n","e","w"," ","t","o","k","e","n","\""," ","\"","p","u","m","p",".","f","u","n","\""," ","s","o","l","a","n","a">>,
          <<"s","i","t","e",":","t","w","i","t","t","e","r",".","c","o","m"," ","\"","g","e","m"," ","f","o","u","n","d","\""," ","s","o","l","a","n","a"," ","p","u","m","p">>,
          <<"s","i","t","e",":","x",".","c","o","m"," ","\"","m","o","o","n","s","h","o","t","\""," ","p","u","m","p",".","f","u","n">> >>

\* str(n) for a natural number n
RECURSIVE IntToStr(_)
IntToStr(n) ==
    IF n < 10 THEN <<DigitChars[n + 1]>>
    ELSE IntToStr(n \div 10) \o <<DigitChars[(n % 10) + 1]>>

LaunchLikes == 45
LaunchRetweets == 12
LaunchReplies == 8
LaunchRelevance == 95
TradingLikes == 23
TradingRetweets == 5
TradingReplies == 15
TradingRelevance == 80
TradingUrlOffset == 100

\* _simulate_realistic_social_search, now being the reading of int(time.time())
simulate_realistic_social_search(query, addr, name, symbol, now) ==
    (IF /\ Contains(Lower(query), S_pump_fun)
        /\ \E part \in {Slice(addr, 0, MidPrefixLen), Slice(addr, 0, PrefixLen)} :
               Contains(query, part)
     THEN << [type |-> "twitter_post",
              title |-> <<"N","e","w"," ","t","o","k","e","n"," ","l","a","u","n","c","h"," ","o","n"," ","p","u","m","p",".","f","u","n","!"," ">> \o symbol,
              content |-> <<"J","u","s","t"," ","l","a","u","n","c","h","e","d"," ","$">> \o symbol \o <<" ","o","n"," ","p","u","m","p",".","f","u","n","!"," ","C","o","n","t","r","a","c","t",":"," ">> \o Slice(addr, 0, MidPrefixLen) \o <<".",".","."," ","L","e","t","'","s"," ","p","u","m","p"," ","t","h","i","s"," ","t","o"," ","t","h","e"," ","m","o","o","n","!"," ","#","S","o","l","a","n","a"," ","#","P","u","m","p","F","u","n"," ","#","M","e","m","e","c","o","i","n">>,
              url |-> <<"h","t","t","p","s",":","/","/","x",".","c","o","m","/","c","r","y","p","t","o","_","t","r","a","d","e","r","/","s","t","a","t","u","s","/">> \o IntToStr(now),
              author |-> <<"@","c","r","y","p","t","o","_","t","r","a","d","e","r","_","1","2","3">>,
              engagement |-> [likes |-> LaunchLikes, retweets |-> LaunchRetweets,
                              replies |-> LaunchReplies],
              verified |-> FALSE,
              relevance_score |-> LaunchRelevance] >>
     ELSE <<>>)
    \o (IF symbol # <<>> /\ symbol # S_UNKNOWN
        THEN << [type |-> "twitter_post",
                 title |-> <<"T","r","a","d","i","n","g"," ","$">> \o symbol \o <<" ","o","n"," ","S","o","l","a","n","a">>,
                 content |-> <<"B","o","u","g","h","t"," ","s","o","m","e"," ","$">> \o symbol \o <<" ","e","a","r","l","i","e","r"," ","t","o","d","a","y","."," ","C","h","a","r","t"," ","l","o","o","k","i","n","g"," ","g","o","o","d"," ","o","n"," ","p","u","m","p",".","f","u","n","!"," ","A","n","y","o","n","e"," ","e","l","s","e"," ","i","n"," ","o","n"," ","t","h","i","s","?"," ","#","S","o","l","a","n","a","M","e","m","e","s">>,
                 url |-> <<"h","t","t","p","s",":","/","/","x",".","c","o","m","/","s","o","l","a","n","a","_","d","e","g","e","n","/","s","t","a","t","u","s","/">> \o IntToStr(now + TradingUrlOffset),
                 author |-> <<"@","s","o","l","a","n","a","_","d","e","g","e","n">>,
                 engagement |-> [likes |-> TradingLikes, retweets |-> TradingRetweets,
                                 replies |-> TradingReplies],
                 verified |-> FALSE,
                 relevance_score |-> TradingRelevance] >>
        ELSE <<>>)

\* the readings of int(time.time()) at the searches of one run, counted from the
\* first one: time.sleep(0.5) follows every search, so two searches later at least a
\* second has passed; the run takes at most MaxClock seconds
MaxClock == 2

ClockReadings ==
    {f \in [1..MaxQueries -> 0..MaxClock] :
        /\ f[1] = 0
        /\ \A i, j \in 1..MaxQueries : i <= j => f[j] >= f[i] + ((j - i) \div 2)}

\* the results of the searches for the first q of the queries
RECURSIVE SearchAll(_, _, _, _, _, _)
SearchAll(queries, q, addr, name, symbol, readings) ==
    IF q = 0 THEN <<>>
    ELSE SearchAll(queries, q - 1, addr, name, symbol, readings)
         \o simulate_realistic_social_search(queries[q], addr, name, symbol, readings[q])

\* what improved_social_media_search returns for the candidates it collected, with
\* the candidates as the verifier leaves them
search_outcome(name, symbol, queries, marked, verified) ==
    [token_name |-> name,
     token_symbol |-> symbol,
     search_queries |-> queries,
     all_results |-> marked,
     returned |-> [success |-> TRUE,
                   total_mentions |-> Len(verified),
                   results |-> verified,
                   search_queries_used |-> Len(queries),
                   verification_passed |-> Len(verified) > 0,
                   analysis_method |-> "improved_multi_source"]]

\* the searches for the first five queries and the verification of what they found
search_and_verify(addr, name, symbol, queries, readings) ==
    Only({search_outcome(name, symbol, queries, MarkedOf(loop, Len(loop)), VerifiedOf(loop)) :
            loop \in {Only({verify_loop(collected, Len(collected), addr, symbol) :
                              collected \in {SearchAll(queries, Min(MaxQueries, Len(queries)),
                                                       addr, name, symbol, readings)}})}})

\* improved_social_media_search after its call of the metadata resolver has returned
\* found; the value is what it returns, with the candidates it collected and marked
improved_social_media_search(addr, name0, symbol0, found, readings) ==
    LET name == IF Get(found, "success", FALSE) THEN Get(found, "name", name0) ELSE name0
        symbol == IF Get(found, "success", FALSE) THEN Get(found, "symbol", symbol0) ELSE symbol0
    IN  Only({search_and_verify(addr, name, symbol, queries, readings) :
                queries \in {create_targeted_search_queries(addr, name, symbol)}})

(***************************************************************************)
(* Call sites of the resolvers of the improved analyzer: the resolver that *)
(* runs there and where the run goes on when it returns.                   *)
(***************************************************************************)
TokenSites == {"direct_token_info", "imp_token_info", "imp_search_token_info"}
PriceSites == {"direct_price_data", "imp_price_data"}
ResolverSites == TokenSites \cup PriceSites

KindAt(site) == IF site \in TokenSites THEN "token" ELSE "price"

AfterResolver(site) ==
    CASE site \in {"direct_token_info", "direct_price_data"} -> "done"
      [] site = "imp_token_info" -> "imp_price_data"
      [] site = "imp_price_data" -> "imp_search_token_info"
      [] site = "imp_search_token_info" -> "imp_search"

\* the resolver at the current call site returns value v to its caller
ResolverReturn(v) ==
    /\ pc' = AfterResolver(pc)
    /\ ridx' = 1
    /\ token_info' = IF pc \in {"direct_token_info", "imp_token_info"} THEN v ELSE token_info
    /\ price_data' = IF pc \in PriceSites THEN v ELSE price_data
    /\ search_token_info' = IF pc = "imp_search_token_info" THEN v ELSE search_token_info

\* one iteration of "for source in sources" (improved_analysis.py)
ResolverTry ==
    /\ pc \in ResolverSites
    /\ ~raised
    /\ ridx <= Len(Sources(KindAt(pc)))
    /\ \E resp \in Responses :
        LET kind == KindAt(pc)
            out == TrySource(kind, ridx, resp, contract_address)
            ok == FetchSucceeds(kind, ridx, resp, contract_address)
        IN  /\ calls' = Append(calls, [op |-> "fetch", site |-> pc,
                                       source |-> Sources(kind)[ridx].name,
                                       ok |-> ok,
                                       value |-> IF ok
                                                 THEN Parse(Sources(kind)[ridx].parser, resp,
                                                            contract_address)
                                                 ELSE None])
            /\ CASE out.act = "return" -> ResolverReturn(out.value) /\ UNCHANGED raised
                 [] out.act = "next" ->
                        /\ ridx' = ridx + 1
                        /\ UNCHANGED <<pc, token_info, price_data, search_token_info, raised>>
                 [] out.act = "raise" ->
                        /\ raised' = TRUE
                        /\ UNCHANGED <<pc, ridx, token_info, price_data, search_token_info>>
    /\ UNCHANGED <<entry, contract_address, validated, mentionVars, searchVars,
                   engagement_analysis, recommendation>>

\* the sources are exhausted: return the fallback object
ResolverExhausted ==
    /\ pc \in ResolverSites
    /\ ~raised
    /\ ridx > Len(Sources(KindAt(pc)))
    /\ ResolverReturn(Fallback(KindAt(pc), contract_address))
    /\ UNCHANGED <<entry, contract_address, validated, calls, raised, mentionVars, searchVars,
                   engagement_analysis, recommendation>>

(***************************************************************************)
(* test_improved_analysis after its two resolver calls.                    *)
(***************************************************************************)
\* social_results = analyzer.improved_social_media_search(...), from the return of
\* its resolver call on: the queries, the searches, the verification
ImprovedSearch ==
    /\ pc = "imp_search"
    /\ ~raised
    /\ \E out \in {improved_social_media_search(contract_address,
                                             Get(token_info, "name", <<>>),
                                             Get(token_info, "symbol", <<>>),
                                             search_token_info, clock)} :
        LET searched == Min(MaxQueries, Len(out.search_queries))
        IN  /\ token_name' = out.token_name
            /\ token_symbol' = out.token_symbol
            /\ search_queries' = out.search_queries
            /\ all_results' = out.all_results
            /\ verified_results' = out.returned.results
            /\ social_results' = out.returned
            /\ calls' = calls \o [q \in 1..searched |->
                                     [op |-> "search", site |-> pc, source |-> "simulated",
                                      ok |-> TRUE, value |-> None]]
    /\ pc' = "imp_engagement"
    /\ UNCHANGED <<entry, contract_address, validated, ridx, token_info, price_data,
                   search_token_info, raised, exa_client, clock, engagement_analysis,
                   recommendation>>

\* engagement_analysis = analyzer.analyze_verified_social_engagement(...)
ImprovedEngagement ==
    /\ pc = "imp_engagement"
    /\ \E summary \in {analyze_verified_social_engagement(Get(social_results, "results", <<>>))} :
           engagement_analysis' = summary
    /\ pc' = "imp_recommendation"
    /\ UNCHANGED <<entry, contract_address, validated, resolverVars, mentionVars, searchVars,
                   recommendation>>

\* recommendation = analyzer.generate_accurate_investment_recommendation(...)
ImprovedRecommendation ==
    /\ pc = "imp_recommendation"
    /\ \E answer \in {generate_accurate_investment_recommendation(
                           token_info, price_data, engagement_analysis)} :
           recommendation' = answer
    /\ pc' = "done"
    /\ UNCHANGED <<entry, contract_address, validated, resolverVars, mentionVars, searchVars,
                   engagement_analysis>>

(***************************************************************************)
(* main of app.py, from the press of the scan button on.                   *)
(***************************************************************************)
\* if analyze_button and contract_address: if not validate_solana_contract(...): return
AppValidate ==
    /\ pc = "app_button"
    /\ IF contract_address = <<>>
       THEN pc' = "app_waiting" /\ UNCHANGED validated
       ELSE IF app_validate_solana_contract(contract_address)
            THEN validated' = "true" /\ pc' = "app_token_info"
            ELSE validated' = "false" /\ pc' = "rejected"
    /\ UNCHANGED <<entry, contract_address, resolverVars, mentionVars, searchVars,
                   engagement_analysis, recommendation>>

\* one iteration of "for url in endpoints" of get_token_info_from_solscan
AppTokenTry ==
    /\ pc = "app_token_info"
    /\ ~raised
    /\ ridx <= Len(app_endpoints)
    /\ \E resp \in Responses :
        LET out == app_try_endpoint(resp)
        IN  /\ calls' = Append(calls, [op |-> "fetch", site |-> pc,
                                       source |-> app_endpoints[ridx],
                                       ok |-> out.act = "return",
                                       value |-> IF out.act = "return" THEN out.value ELSE None])
            /\ CASE out.act = "return" ->
                        /\ token_info' = out.value
                        /\ pc' = "app_price_data"
                        /\ ridx' = 1
                        /\ UNCHANGED raised
                 [] out.act = "next" ->
                        /\ ridx' = ridx + 1
                        /\ UNCHANGED <<pc, token_info, raised>>
                 [] out.act = "raise" ->
                        /\ raised' = TRUE
                        /\ UNCHANGED <<pc, ridx, token_info>>
    /\ UNCHANGED <<entry, contract_address, validated, price_data, search_token_info,
                   mentionVars, searchVars, engagement_analysis, recommendation>>

\* the endpoints are exhausted: return the fallback object
AppTokenExhausted ==
    /\ pc = "app_token_info"
    /\ ~raised
    /\ ridx > Len(app_endpoints)
    /\ token_info' = app_fallback_token_info(contract_address)
    /\ pc' = "app_price_data"
    /\ ridx' = 1
    /\ UNCHANGED <<entry, contract_address, validated, calls, price_data, search_token_info,
                   raised, mentionVars, searchVars, engagement_analysis, recommendation>>

\* price_data = analyzer.get_token_price_data(contract_address)
AppPrice ==
    /\ pc = "app_price_data"
    /\ ~raised
    /\ \E resp \in Responses :
        LET out == get_token_price_data(resp)
            ok == out.act = "return" /\ out.value.success
        IN  /\ calls' = Append(calls, [op |-> "fetch", site |-> pc,
                                       source |-> "api.dexscreener.com",
                                       ok |-> ok,
                                       value |-> IF ok THEN out.value ELSE None])
            /\ IF out.act = "return"
               THEN price_data' = out.value /\ pc' = "app_search" /\ UNCHANGED raised
               ELSE raised' = TRUE /\ UNCHANGED <<pc, price_data>>
    /\ UNCHANGED <<entry, contract_address, validated, ridx, token_info, search_token_info,
                   mentionVars, searchVars, engagement_analysis, recommendation>>

\* social_results = analyzer.search_x_mentions(contract_address, name, symbol)
AppSearch ==
    /\ pc = "app_search"
    /\ LET name == Get(token_info, "name", <<>>)
           symbol == Get(token_info, "symbol", <<>>)
           queries == IF exa_client THEN app_queries(contract_address, name, symbol) ELSE <<>>
       IN  \E outcomes \in [1..Len(queries) -> ExaOutcomes] :
               \E out \in {search_x_mentions(exa_client, contract_address, name, symbol,
                                              outcomes)} :
                   /\ token_name' = name
                   /\ token_symbol' = symbol
                   /\ search_queries' = queries
                   /\ social_results' = out
                   /\ all_results' = Get(out, "results", <<>>)
                   /\ calls' = calls \o [q \in 1..Len(queries) |->
                                            [op |-> "search", site |-> pc, source |-> "exa",
                                             ok |-> "results" \in DOMAIN outcomes[q],
                                             value |-> None]]
    /\ pc' = "app_engagement"
    /\ UNCHANGED <<entry, contract_address, validated, ridx, token_info, price_data,
                   search_token_info, raised, exa_client, clock, verified_results,
                   engagement_analysis, recommendation>>

\* the engagement summary main hands to the scorer
AppEngagement ==
    /\ pc = "app_engagement"
    /\ \E summary \in {app_engagement_for(social_results)} : engagement_analysis' = summary
    /\ pc' = "app_recommendation"
    /\ UNCHANGED <<entry, contract_address, validated, resolverVars, mentionVars, searchVars,
                   recommendation>>

\* recommendation = analyzer.generate_investment_recommendation(...)
AppRecommendation ==
    /\ pc = "app_recommendation"
    /\ \E answer \in {generate_investment_recommendation(
                           token_info, price_data, engagement_analysis)} :
           recommendation' = answer
    /\ pc' = "done"
    /\ UNCHANGED <<entry, contract_address, validated, resolverVars, mentionVars, searchVars,
                   engagement_analysis>>

(***************************************************************************)
(* Entry points: the two resolvers called on their own, main of app.py and *)
(* test_improved_analysis (which runs on its fixed test contract).         *)
(***************************************************************************)
Entries == {"get_token_info_from_multiple_sources", "get_comprehensive_price_data",
            "main", "test_improved_analysis"}

StartPc(e) ==
    CASE e = "get_token_info_from_multiple_sources" -> "direct_token_info"
      [] e = "get_comprehensive_price_data" -> "direct_price_data"
      [] e = "main" -> "app_button"
      [] e = "test_improved_analysis" -> "imp_token_info"

\* what is typed into the address field of main: nothing, a text that is too
\* short, a text of the right length with a character outside the alphabet, or
\* a well-formed address
TypedAddresses == {<<>>, ShortContract, ZeroContract, TestContract}

\* the start of a run, test_contracts being the values test_contract may be given
InitRun(test_contracts) ==
    /\ entry \in Entries
    /\ contract_address \in (CASE entry = "main" -> TypedAddresses
                               [] entry = "test_improved_analysis" -> test_contracts
                               [] OTHER -> Identifiers)
    /\ exa_client \in (IF entry = "main" THEN BOOLEAN ELSE {FALSE})
    /\ clock \in (IF entry = "test_improved_analysis" THEN ClockReadings ELSE {<<>>})
    /\ pc = StartPc(entry)
    /\ validated = "unset"
    /\ ridx = 1
    /\ calls = <<>>
    /\ token_info = None
    /\ price_data = None
    /\ search_token_info = None
    /\ raised = FALSE
    /\ token_name = <<>>
    /\ token_symbol = <<>>
    /\ search_queries = <<>>
    /\ social_results = None
    /\ all_results = <<>>
    /\ verified_results = <<>>
    /\ engagement_analysis = None
    /\ recommendation = None

\* test_contract as the file has it
Init == InitRun({TestContract})

Next ==
    \/ ResolverTry
    \/ ResolverExhausted
    \/ ImprovedSearch
    \/ ImprovedEngagement
    \/ ImprovedRecommendation
    \/ AppValidate
    \/ AppTokenTry
    \/ AppTokenExhausted
    \/ AppPrice
    \/ AppSearch
    \/ AppEngagement
    \/ AppRecommendation

Spec == Init /\ [][Next]_vars

\* the same runs, test_improved_analysis being also run with test_contract set to an
\* identifier that does not contain "pump"
InitAnyContract == InitRun({TestContract, SamePrefixContract})

SpecAnyContract == InitAnyContract /\ [][Next]_vars

\* the run is one sequential flow and every step of it ends (the fetches have a
\* timeout): a step that can be taken is taken
FairSpec == Spec /\ WF_vars(Next)


(***************************************************************************)
(* The relevance verifier on its own: a candidate list is collected, then  *)
(* _verify_and_filter_results runs on it.                                  *)
(***************************************************************************)
MaxCandidates == 3

U_x == <<"h","t","t","p","s",":","/","/","x",".","c","o","m","/","a","/","s","t","a","t","u","s","/","1">>
U_twitter == <<"h","t","t","p","s",":","/","/","t","w","i","t","t","e","r",".","c","o","m","/","b","/","s","t","a","t","u","s","/","2">>
U_other == <<"h","t","t","p","s",":","/","/","e","x","a","m","p","l","e",".","o","r","g","/","p","/","3">>
A_crypto_trader == <<"@","c","r","y","p","t","o","_","t","r","a","d","e","r","_","1","2","3">>
A_solana_degen == <<"@","s","o","l","a","n","a","_","d","e","g","e","n">>
A_CryptoKing == <<"@","C","r","y","p","t","o","K","i","n","g">>
A_cryptoking == <<"@","c","r","y","p","t","o","k","i","n","g">>
A_defi_whale == <<"@","d","e","f","i","_","w","h","a","l","e">>
A_trader_joe == <<"@","t","r","a","d","e","r","_","j","o","e">>
A_solana_sensei == <<"@","s","o","l","a","n","a","_","s","e","n","s","e","i">>
A_bob == <<"@","b","o","b">>
T_launch == <<"l","a","u","n","c","h">>

\* text holding an 8-character window of TestContract that starts at a multiple of 4
X_aligned == <<"c","a"," ">> \o Slice(TestContract, 4, 12)
\* text holding 8 characters of TestContract that start at position 1
X_misaligned == <<"c","a"," ">> \o Slice(TestContract, 1, 9)
X_symbol_context == <<"$","P","C","A","T"," ","p","u","m","p"," ","f","u","n">>
X_everything == <<"$","P","C","A","T"," ","o","n"," ","p","u","m","p",".","f","u","n"," ">> \o Slice(TestContract, 0, 12)

Likes(l, rt, rp) == [likes |-> l, retweets |-> rt, replies |-> rp]

Candidate(title, content, url, author, engagement) ==
    [title |-> title, content |-> content, url |-> url, author |-> author,
     engagement |-> engagement]

CandidatePool ==
    { Candidate(T_launch, X_aligned, U_x, A_crypto_trader, Likes(45, 12, 8)),
      Candidate(T_launch, X_aligned, U_twitter, <<>>, <<>>),
      Candidate(T_launch, X_aligned, U_other, A_bob, <<>>),
      Candidate(T_launch, X_symbol_context, U_x, <<>>, <<>>),
      Candidate(T_launch, X_symbol_context, U_other, A_solana_degen, Likes(23, 5, 15)),
      Candidate(X_aligned, X_everything, U_x, A_CryptoKing, Likes(150, 0, 0)),
      Candidate(T_launch, X_misaligned, U_twitter, A_bob, Likes(0, 0, 0)),
      Candidate(<<>>, <<>>, <<>>, <<>>, <<>>) }

Symbols == {<<>>, S_UNKNOWN, S_PCAT}

pureIdle ==
    /\ validated = "unset"
    /\ exa_client = FALSE
    /\ clock = <<>>
    /\ token_name = <<>>
    /\ search_queries = <<>>
    /\ social_results = None
    /\ ridx = 1
    /\ calls = <<>>
    /\ token_info = None
    /\ search_token_info = None
    /\ raised = FALSE

InitVerify ==
    /\ entry = "_verify_and_filter_results"
    /\ pc = "collect"
    /\ contract_address \in {TestContract, OtherContract}
    /\ token_symbol \in Symbols
    /\ all_results = <<>>
    /\ verified_results = <<>>
    /\ price_data = None
    /\ engagement_analysis = None
    /\ recommendation = None
    /\ pureIdle

\* the search adapter hands over one more candidate
AddCandidate ==
    /\ pc = "collect"
    /\ Len(all_results) < MaxCandidates
    /\ \E c \in CandidatePool : all_results' = Append(all_results, c)
    /\ UNCHANGED <<entry, pc, contract_address, validated, resolverVars, token_symbol,
                   verified_results, searchVars, engagement_analysis, recommendation>>

\* verified_results = self._verify_and_filter_results(all_results, ...)
VerifyCall ==
    /\ pc = "collect"
    /\ \E loop \in {verify_loop(all_results, Len(all_results), contract_address, token_symbol)} :
           /\ verified_results' = VerifiedOf(loop)
           /\ all_results' = MarkedOf(loop, Len(loop))
    /\ pc' = "verified"
    /\ UNCHANGED <<entry, contract_address, validated, resolverVars, token_symbol,
                   searchVars, engagement_analysis, recommendation>>

NextVerify == AddCandidate \/ VerifyCall

SpecVerify == InitVerify /\ [][NextVerify]_vars

(***************************************************************************)
(* The engagement aggregator on its own: a list of verified mentions is    *)
(* collected, then analyze_verified_social_engagement runs on it.          *)
(***************************************************************************)
MaxMentions == 4

Mention(url, author, engagement, score) ==
    [title |-> T_launch, content |-> X_aligned, url |-> url, author |-> author,
     engagement |-> engagement, verification_score |-> score]

MentionPool ==
    { Mention(U_x, A_crypto_trader, Likes(45, 12, 8), 80),
      Mention(U_x, A_solana_degen, Likes(23, 5, 15), 80),
      Mention(U_x, A_CryptoKing, Likes(150, 0, 0), 80),
      Mention(U_twitter, A_cryptoking, Likes(101, 40, 1), 80),
      Mention(U_x, A_defi_whale, Likes(100, 0, 0), 80),
      Mention(U_x, A_bob, Likes(500, 200, 3), 80),
      Mention(U_twitter, A_trader_joe, Likes(1000, 0, 0), 80),
      Mention(U_x, A_solana_sensei, Likes(200, 7, 0), 80),
      Mention(U_x, <<>>, <<>>, 70) }

InitEngagement ==
    /\ entry = "analyze_verified_social_engagement"
    /\ pc = "collect_verified"
    /\ contract_address = TestContract
    /\ token_symbol = S_PCAT
    /\ all_results = <<>>
    /\ verified_results = <<>>
    /\ price_data = None
    /\ engagement_analysis = None
    /\ recommendation = None
    /\ pureIdle

AddMention ==
    /\ pc = "collect_verified"
    /\ Len(verified_results) < MaxMentions
    /\ \E m \in MentionPool : verified_results' = Append(verified_results, m)
    /\ UNCHANGED <<entry, pc, contract_address, validated, resolverVars, token_symbol,
                   all_results, searchVars, engagement_analysis, recommendation>>

\* engagement_analysis = analyzer.analyze_verified_social_engagement(results, ...)
AnalyzeCall ==
    /\ pc = "collect_verified"
    /\ engagement_analysis' = analyze_verified_social_engagement(verified_results)
    /\ pc' = "analyzed"
    /\ UNCHANGED <<entry, contract_address, validated, resolverVars, mentionVars,
                   searchVars, recommendation>>

NextEngagement == AddMention \/ AnalyzeCall

SpecEngagement == InitEngagement /\ [][NextEngagement]_vars

(***************************************************************************)
(* The recommendation scorer on its own, on engagement summaries the       *)
(* aggregator produces and on market snapshots of every textual shape.     *)
(***************************************************************************)
MarketTexts ==
    { S_Unknown,
      <<>>,
      S_Zero,
      <<"2","4","9","9","9">>,
      <<"2","5","0","0","0">>,
      S_60000,
      <<"9","9","9","9","9",".","9">>,
      <<"1","0","0","0","0","0">>,
      S_150000,
      <<"1","5","0",",","0","0","0">>,
      <<"1",".","2",".","3">>,
      <<"1","e","+","1","6">>,
      <<"N","o"," ","l","i","q","u","i","d","i","t","y">> }

MarketSnapshot(liquidity, volume) ==
    [price_usd |-> S_Zero, market_cap |-> S_Unknown, liquidity |-> liquidity,
     volume_24h |-> volume, price_change_24h |-> S_Unknown, dex |-> S_Unknown,
     success |-> TRUE, source |-> "DexScreener"]

MarketInputs ==
    {MarketSnapshot(l, v) : l \in MarketTexts, v \in MarketTexts}
    \cup {create_fallback_price_data}

M(author, likes) == Mention(U_x, author, Likes(likes, 0, 0), 80)

SampleMentionLists ==
    { <<>>,
      << M(A_bob, 0) >>,
      << M(A_bob, 0), M(A_bob, 50) >>,
      << M(A_bob, 60), M(A_bob, 50) >>,
      << M(A_CryptoKing, 150) >>,
      << M(A_CryptoKing, 150), M(A_bob, 40), M(A_bob, 10) >>,
      << M(A_CryptoKing, 150), M(A_bob, 0), M(A_bob, 0) >>,
      << M(A_CryptoKing, 150), Mention(U_x, A_bob, Likes(43, 30, 2), 80), M(A_bob, 10) >>,
      << M(A_bob, 500), M(A_bob, 0), M(A_bob, 0) >>,
      << M(A_CryptoKing, 150), M(A_trader_joe, 1000), M(A_solana_sensei, 200) >>,
      << M(A_CryptoKing, 150), M(A_trader_joe, 1000), M(A_solana_sensei, 200), M(A_bob, 1) >> }

\* the summary the aggregator returns for a list, and the same summary handed over
\* with an engagement score at either side of the two social cutoffs
SocialInputs(results) ==
    {analyze_verified_social_engagement(results)}
    \cup {[s EXCEPT !.engagement_score = e] :
             s \in {analyze_verified_social_engagement(results)},
             e \in {ModerateSocial * Tenths - 1, ModerateSocial * Tenths,
                    StrongSocial * Tenths - 1, StrongSocial * Tenths}}

TokenInputs ==
    { create_fallback_token_info(TestContract),
      parse_dexscreener_token_info(
          [status |-> HTTP_OK, body |-> "object", usable |-> TRUE,
           fields |-> [name |-> S_PumpCat, symbol |-> S_PCAT]], TestContract) }

InitScore ==
    /\ entry = "generate_accurate_investment_recommendation"
    /\ pc = "score"
    /\ contract_address = TestContract
    /\ token_symbol = S_PCAT
    /\ all_results = <<>>
    /\ verified_results \in SampleMentionLists
    /\ validated = "unset"
    /\ exa_client = FALSE
    /\ clock = <<>>
    /\ token_name = <<>>
    /\ search_queries = <<>>
    /\ social_results = None
    /\ ridx = 1
    /\ calls = <<>>
    /\ search_token_info = None
    /\ raised = FALSE
    /\ token_info \in TokenInputs
    /\ price_data \in MarketInputs
    /\ engagement_analysis \in SocialInputs(verified_results)
    /\ recommendation = None

\* recommendation = analyzer.generate_accurate_investment_recommendation(...)
RecommendCall ==
    /\ pc = "score"
    /\ recommendation' = generate_accurate_investment_recommendation(
                             token_info, price_data, engagement_analysis)
    /\ pc' = "scored"
    /\ UNCHANGED <<entry, contract_address, validated, resolverVars, mentionVars,
                   searchVars, engagement_analysis>>

NextScore == RecommendCall

SpecScore == InitScore /\ [][NextScore]_vars

(***************************************************************************)
(* The two validators on their own, on typed texts of every length up to   *)
(* MaxTypedLen: the beginnings of a base58 text, as they are or with one   *)
(* character replaced.                                                     *)
(***************************************************************************)
MaxTypedLen == 46

ValidatorTexts ==
    LET base == TestContract \o <<"1","2","3","4">>
        odd == {"0", "O", "I", "l", " ", "-", "_", "z", "9"}
    IN  {Slice(base, 0, n) : n \in 0..MaxTypedLen}
        \cup {[i \in 1..n |-> IF i = k THEN c ELSE base[i]] :
                n \in {1, MinAddressLen - 1, MinAddressLen, MinAddressLen + 1,
                       MaxAddressLen, MaxAddressLen + 1, MaxTypedLen},
                k \in {1, 2, MinAddressLen - 1, MinAddressLen, MaxAddressLen, MaxTypedLen},
                c \in odd}

InitValidate ==
    /\ entry \in {"validate_solana_contract", "app.validate_solana_contract"}
    /\ pc = "validate"
    /\ contract_address \in ValidatorTexts
    /\ token_symbol = <<>>
    /\ all_results = <<>>
    /\ verified_results = <<>>
    /\ price_data = None
    /\ engagement_analysis = None
    /\ recommendation = None
    /\ pureIdle

\* analyzer.validate_solana_contract(contract_address) of improved_analysis.py
ValidateCall ==
    /\ entry = "validate_solana_contract"
    /\ pc = "validate"
    /\ validated' = IF validate_solana_contract(contract_address) THEN "true" ELSE "false"
    /\ pc' = "validated"
    /\ UNCHANGED <<entry, contract_address, resolverVars, mentionVars, searchVars,
                   engagement_analysis, recommendation>>

\* analyzer.validate_solana_contract(contract_address) of app.py
AppValidateCall ==
    /\ entry = "app.validate_solana_contract"
    /\ pc = "validate"
    /\ validated' = IF app_validate_solana_contract(contract_address) THEN "true" ELSE "false"
    /\ pc' = "validated"
    /\ UNCHANGED <<entry, contract_address, resolverVars, mentionVars, searchVars,
                   engagement_analysis, recommendation>>

NextValidate == ValidateCall \/ AppValidateCall

SpecValidate == InitValidate /\ [][NextValidate]_vars

(***************************************************************************)
(* One iteration of a resolver on its own: the provider at position ridx   *)
(* of the resolver named by entry answers the response that waits in the   *)
(* log, and the resolver returns a value or goes on to the next provider   *)
(* (to the fallback object after the last one).                            *)
(***************************************************************************)
IterationEntries ==
    {"get_token_info_from_multiple_sources", "get_comprehensive_price_data",
     "get_token_info_from_solscan", "get_token_price_data"}

\* the number of providers of a resolver
ProvidersOf(resolver) ==
    CASE resolver = "get_token_info_from_multiple_sources" -> Len(token_sources)
      [] resolver = "get_comprehensive_price_data" -> Len(price_sources)
      [] resolver = "get_token_info_from_solscan" -> Len(app_endpoints)
      [] resolver = "get_token_price_data" -> 1

InitIteration ==
    /\ entry \in IterationEntries
    /\ pc = "fetched"
    /\ ridx \in 1..ProvidersOf(entry)
    /\ contract_address \in {TestContract, SamePrefixContract}
    /\ calls \in {<<[op |-> "response", resp |-> r]>> : r \in Responses}
    /\ validated = "unset"
    /\ exa_client = FALSE
    /\ clock = <<>>
    /\ token_info = None
    /\ price_data = None
    /\ search_token_info = None
    /\ raised = FALSE
    /\ token_name = <<>>
    /\ token_symbol = <<>>
    /\ search_queries = <<>>
    /\ social_results = None
    /\ all_results = <<>>
    /\ verified_results = <<>>
    /\ engagement_analysis = None
    /\ recommendation = None

\* what the iteration with outcome out leaves: the value returned, or the next
\* provider, or the fallback object after the last provider
IterationEnds(out, fallback) ==
    /\ CASE out.act = "return" ->
               /\ search_token_info' = out.value
               /\ pc' = "returned"
               /\ UNCHANGED <<ridx, raised>>
         [] out.act = "next" /\ ridx < ProvidersOf(entry) ->
               /\ ridx' = ridx + 1
               /\ pc' = "next"
               /\ UNCHANGED <<search_token_info, raised>>
         [] out.act = "next" /\ ridx = ProvidersOf(entry) ->
               /\ search_token_info' = fallback
               /\ pc' = "returned"
               /\ UNCHANGED <<ridx, raised>>
         [] out.act = "raise" ->
               /\ raised' = TRUE
               /\ pc' = "raised"
               /\ UNCHANGED <<ridx, search_token_info>>
    /\ UNCHANGED <<entry, contract_address, validated, calls, token_info, price_data,
                   mentionVars, searchVars, engagement_analysis, recommendation>>

\* one iteration of "for source in sources" of improved_analysis.py
IterateSource ==
    /\ pc = "fetched"
    /\ entry \in {"get_token_info_from_multiple_sources", "get_comprehensive_price_data"}
    /\ \E kind \in {IF entry = "get_comprehensive_price_data" THEN "price" ELSE "token"} :
           IterationEnds(TrySource(kind, ridx, calls[1].resp, contract_address),
                         Fallback(kind, contract_address))

\* one iteration of "for url in endpoints" of get_token_info_from_solscan (app.py)
AppIterateEndpoint ==
    /\ pc = "fetched"
    /\ entry = "get_token_info_from_solscan"
    /\ IterationEnds(app_try_endpoint(calls[1].resp), app_fallback_token_info(contract_address))

\* the one fetch of get_token_price_data (app.py)
AppPriceFetch ==
    /\ pc = "fetched"
    /\ entry = "get_token_price_data"
    /\ IterationEnds(get_token_price_data(calls[1].resp), app_fallback_price_data)

NextIteration == IterateSource \/ AppIterateEndpoint \/ AppPriceFetch

SpecIteration == InitIteration /\ [][NextIteration]_vars

(***************************************************************************)
(* Claims about one iteration of a resolver (checked under SpecIteration). *)
(***************************************************************************)
\* the provider answered status 200 with a JSON object that lacks what its parser
\* reads: no pair, no entry for the identifier, an empty object
C20_LacksFields ==
    \E r \in {calls[1].resp} :
        /\ "status" \in DOMAIN r
        /\ r.status = 200
        /\ r.body = "object"
        /\ ~r.usable

\* C20: when a 200 response lacks the expected fields, the resolver does not return
\* that provider's parse: it goes on to the next provider, and after the last one it
\* returns the fallback object (this is the statement of the claim; the Solscan
\* parser and get_token_info_from_solscan report success whatever the object holds)
C20_ParseErrors ==
    (pc # "fetched" /\ C20_LacksFields) =>
        \/ pc = "next"
        \/ /\ pc = "returned"
           /\ ridx = ProvidersOf(entry)
           /\ ~search_token_info.success
           /\ Get(search_token_info, "fallback", FALSE)

(***************************************************************************)
(* Claims about whole runs with any test contract (checked under           *)
(* SpecAnyContract).                                                       *)
(***************************************************************************)
\* a run of test_improved_analysis has ended, every fetch of a provider failed and
\* no search returned a result
C15_ScenarioB ==
    /\ entry = "test_improved_analysis"
    /\ pc = "done"
    /\ validate_solana_contract(contract_address)
    /\ \A i \in 1..Len(calls) : calls[i].op = "fetch" => ~calls[i].ok
    /\ all_results = <<>>

\* C15: in a run on a valid identifier where every provider fails and the searches
\* return nothing, the metadata and the market snapshot are the fallback objects, at
\* least one query is still issued, the aggregator receives no verified mention, and
\* the recommendation is STRONG AVOID with the reasons "no verified social media
\* mentions found" and "unknown liquidity data"
C15_AllFail ==
    C15_ScenarioB =>
        /\ token_info.fallback /\ ~token_info.success
        /\ price_data.fallback /\ ~price_data.success
        /\ \E i \in 1..Len(calls) : calls[i].op = "search"
        /\ Len(search_queries) >= 1
        /\ verified_results = <<>>
        /\ social_results.results = <<>>
        /\ engagement_analysis.authentic_mentions = 0
        /\ recommendation.recommendation = "STRONG AVOID - No Confidence"
        /\ \E i \in 1..Len(recommendation.reasons) :
               recommendation.reasons[i] = [about |-> "social", kind |-> "none"]
        /\ \E i \in 1..Len(recommendation.reasons) :
               recommendation.reasons[i] = [about |-> "liquidity", kind |-> "unknown"]

\* such a run: five queries were issued for an identifier without "pump" and the
\* score is 0
C15_Witness ==
    /\ C15_ScenarioB
    /\ contract_address = SamePrefixContract
    /\ Len(SelectSeq(calls, LAMBDA c : c.op = "search")) = 5
    /\ Len(SelectSeq(calls, LAMBDA c : c.op = "fetch")) = 8
    /\ recommendation.score = 0

(***************************************************************************)
(* Claims about the validators (checked under SpecValidate).               *)
(***************************************************************************)
\* the base58 alphabet: the digits but 0, the capitals but I and O, the small letters
\* but l
C14_Base58 ==
    ({"1","2","3","4","5","6","7","8","9"}
     \cup {UpperLetters[i] : i \in DOMAIN UpperLetters}
     \cup {LowerLetters[i] : i \in DOMAIN LowerLetters}) \ {"I", "O", "l"}

\* C14: either validator answers false for the empty text, for a text shorter than
\* 32 or longer than 44 characters and for a text with a character outside the 58
\* base58 symbols, and true for every text of 32 to 44 base58 characters
C14_Validator ==
    /\ Cardinality(C14_Base58) = 58
    /\ pc = "validated" =>
           (validated = "true" <=>
               /\ Len(contract_address) >= 32
               /\ Len(contract_address) <= 44
               /\ \A i \in 1..Len(contract_address) : contract_address[i] \in C14_Base58)

\* a text of exactly 32 base58 characters was accepted
C14_Witness ==
    /\ pc = "validated"
    /\ entry = "validate_solana_contract"
    /\ Len(contract_address) = 32
    /\ validated = "true"

(***************************************************************************)
(* Claims about the relevance verifier (checked under SpecVerify).         *)
(***************************************************************************)
\* a result without the field the verifier attaches
Unscored(r) == [k \in DOMAIN r \ {"verification_score"} |-> r[k]]

\* the positions of the candidates that are the first with their URL
FirstWithUrl(results) ==
    {i \in 1..Len(results) : \A j \in 1..(i - 1) : results[j].url # results[i].url}

\* the score of the claim: the five signals, added up
C5_Score(r, addr, symbol) ==
    LET text == Lower(r.title \o <<" ">> \o r.content)
        windows == {Lower(SubSeq(addr, 4 * k + 1, 4 * k + 8)) : k \in 0..((Len(addr) - 8) \div 4)}
        known == symbol # <<>> /\ symbol # S_UNKNOWN
    IN  (IF \E w \in windows : Contains(text, w) THEN 50 ELSE 0)
        + (IF known /\ Contains(text, Lower(symbol)) THEN 30 ELSE 0)
        + (IF Contains(text, S_pump) /\ (Contains(text, S_fun) \/ Contains(text, S_solana))
           THEN 20 ELSE 0)
        + (IF Contains(r.url, S_x_com) \/ Contains(r.url, S_twitter_com) THEN 20 ELSE 0)
        + (IF r.engagement # <<>> \/ r.author # <<>> THEN 10 ELSE 0)

RECURSIVE C5_Expected(_, _, _)
C5_Expected(results, addr, symbol) ==
    IF results = <<>> THEN <<>>
    ELSE LET r == Unscored(Head(results))
             n == C5_Score(r, addr, symbol)
             rest == C5_Expected(Tail(results), addr, symbol)
         IN  IF n >= 70 THEN <<WithScore(r, n)>> \o rest ELSE rest

\* C4: the verified output holds at most one entry per URL, the first-encountered
\* one, and keeps the first-occurrence order of the candidates (this is the
\* statement of the claim; the verifier has no deduplication step)
C4_DedupByUrl ==
    pc = "verified" =>
        /\ \A i, j \in 1..Len(verified_results) :
               i # j => verified_results[i].url # verified_results[j].url
        /\ verified_results =
               C5_Expected(SelectSeq(all_results,
                                     LAMBDA r : \E i \in FirstWithUrl(all_results) :
                                                    all_results[i] = r),
                           contract_address, token_symbol)

\* C5: the verifier returns exactly the candidates whose accumulated score is
\* at least 70, in input order, each carrying that score as verification_score
C5_VerificationGate ==
    pc = "verified" =>
        /\ verified_results = C5_Expected(all_results, contract_address, token_symbol)
        /\ \A i \in 1..Len(verified_results) : verified_results[i].verification_score >= 70

\* a candidate scoring exactly 70 was retained and one scoring 60 was rejected
C5_Witness ==
    /\ pc = "verified"
    /\ \E i \in 1..Len(verified_results) : verified_results[i].verification_score = 70
    /\ \E i \in 1..Len(all_results) :
           /\ "verification_score" \notin DOMAIN all_results[i]
           /\ C5_Score(all_results[i], contract_address, token_symbol) = 60

\* the text of a mention holds 8 consecutive characters of the identifier
C21_IdentifierHit(r, addr) ==
    \E text \in {Lower(r.title \o <<" ">> \o r.content)} :
        \E i \in 0..(Len(addr) - 8) : Contains(text, Lower(SubSeq(addr, i + 1, i + 8)))

\* the URL of a mention is on x.com or twitter.com
C21_DomainHit(r) == Contains(r.url, S_x_com) \/ Contains(r.url, S_twitter_com)

\* C21: every mention the verifier retains holds an 8-character piece of the
\* identifier or has a URL on a target domain; keyword, symbol and author or
\* engagement signals alone never pass
C21_Corroboration ==
    pc = "verified" =>
        \A i \in 1..Len(verified_results) :
            \/ C21_IdentifierHit(verified_results[i], contract_address)
            \/ C21_DomainHit(verified_results[i])

\* a mention with symbol, keywords and a target domain but no piece of the identifier
\* was retained, and one with symbol, keywords, author and engagement on another
\* domain was rejected
C21_Witness ==
    /\ pc = "verified"
    /\ \E i \in 1..Len(verified_results) :
           /\ ~C21_IdentifierHit(verified_results[i], contract_address)
           /\ C21_DomainHit(verified_results[i])
    /\ \E i \in 1..Len(all_results) :
           /\ "verification_score" \notin DOMAIN all_results[i]
           /\ ~C21_DomainHit(all_results[i])
           /\ all_results[i].content = X_symbol_context
           /\ all_results[i].author # <<>>
           /\ token_symbol = S_PCAT

\* C22: every mention the verifier returns carries a verification_score between 0
\* and 100 (this is the statement of the claim; the five signals add up to 130)
C22_ScoreRange ==
    pc = "verified" =>
        \A i \in 1..Len(verified_results) :
            /\ verified_results[i].verification_score >= 0
            /\ verified_results[i].verification_score <= 100

\* C23: the verifier leaves every candidate of its input list as it was (this is the
\* statement of the claim; the verifier writes verification_score into the retained
\* candidates)
C23_ReadOnlyInput ==
    [][(pc = "collect" /\ pc' = "verified") => all_results' = all_results]_vars

(***************************************************************************)
(* Claims about the engagement aggregator (checked under SpecEngagement).  *)
(***************************************************************************)
\* C8: aggregate([]) has engagement_score 0 and every other list has a score
\* between 0 and 100 (in tenths: 0 and 1000)
C8_EngagementBound ==
    pc = "analyzed" =>
        /\ verified_results = <<>> => engagement_analysis.engagement_score = 0
        /\ engagement_analysis.engagement_score >= 0
        /\ engagement_analysis.engagement_score <= 1000

\* the cap decided the score: the three components add up to more than 100
C8_Witness ==
    /\ pc = "analyzed"
    /\ Len(verified_results) = 4
    /\ Cardinality(engagement_analysis.notable_accounts) >= 2
    /\ engagement_analysis.total_engagement.likes >= 300
    /\ engagement_analysis.engagement_score = 1000

\* the notable authors of the claim: the distinct authors (handles compared without
\* case) whose handle holds a keyword and whose own post has more than 100 likes
C9_Notable(results) ==
    { Lower(results[i].author) : i \in
        { j \in 1..Len(results) :
            /\ \E w \in {<<"c","r","y","p","t","o">>, <<"s","o","l","a","n","a">>,
                         <<"d","e","f","i">>, <<"t","r","a","d","e","r">>} :
                   Contains(Lower(results[j].author), w)
            /\ results[j].engagement # <<>>
            /\ results[j].engagement.likes > 100 } }

RECURSIVE C9_Total(_, _)
C9_Total(results, key) ==
    IF results = <<>> THEN 0
    ELSE (IF Head(results).engagement = <<>> THEN 0 ELSE Head(results).engagement[key])
         + C9_Total(Tail(results), key)

C24_EngagementLevels ==
    pc = "analyzed" =>
        /\ engagement_analysis.engagement_level \in {"None", "Low", "Moderate", "High", "Very High"}
        /\ engagement_analysis.engagement_level = "None" <=> verified_results = <<>>

\* a single mention was analyzed and the level is Low
C24_Witness ==
    /\ pc = "analyzed"
    /\ Len(verified_results) = 1
    /\ engagement_analysis.engagement_level = "Low"

(***************************************************************************)
(* Claims about the recommendation scorer (checked under SpecScore).       *)
(***************************************************************************)
\* the market component of the claim: 20 / 10 / 0 by the parsed value, 0 if the
\* text does not parse as a decimal
C10_Market(text) ==
    LET t == SelectSeq(text, LAMBDA c : c # ",")
        digits == SelectSeq(t, LAMBDA c : c # ".")
        parses == /\ digits # <<>>
                  /\ \A i \in 1..Len(digits) : IsDigitChar(digits[i])
                  /\ Len(t) - Len(digits) <= 1
    IN  IF ~parses THEN 0
        ELSE IF FloatFloor(t) >= 100000 THEN 20
        ELSE IF FloatFloor(t) >= 25000 THEN 10
        ELSE 0

C10_Social(social) ==
    IF social.authentic_mentions = 0 THEN 0
    ELSE IF social.engagement_score >= 700 THEN 40
    ELSE IF social.engagement_score >= 400 THEN 25
    ELSE 10

C10_NotablePart(social) ==
    IF Cardinality(social.notable_accounts) >= 3 THEN 20
    ELSE IF Cardinality(social.notable_accounts) >= 1 THEN 10
    ELSE 0

\* C10: score = social + notable + liquidity + volume, the volume component being
\* computed from volume_24h alone, whatever the liquidity value is (this is the
\* statement of the claim; a ValueError on the liquidity text skips the volume)
C10_ScoreComposition ==
    pc = "scored" =>
        recommendation.score =
            C10_Social(engagement_analysis) + C10_NotablePart(engagement_analysis)
            + C10_Market(price_data.liquidity) + C10_Market(price_data.volume_24h)

\* the label, the risk level and the confidence the bands of the claim give a score
C11_Expected(score) ==
    CASE score >= 85 ->
           [label |-> "STRONG BUY - High Confidence", risk |-> "Low", confidence |-> "High"]
      [] score >= 65 /\ score < 85 ->
           [label |-> "MODERATE BUY - Medium Confidence", risk |-> "Medium",
            confidence |-> "High"]
      [] score >= 45 /\ score < 65 ->
           [label |-> "CAUTION - Low Confidence", risk |-> "High", confidence |-> "Medium"]
      [] score >= 25 /\ score < 45 ->
           [label |-> "AVOID - Very Low Confidence", risk |-> "Very High",
            confidence |-> "Low"]
      [] OTHER ->
           [label |-> "STRONG AVOID - No Confidence", risk |-> "Extremely High",
            confidence |-> "Low"]

\* C11: the label and the risk level are STRONG BUY / Low from 85, MODERATE BUY /
\* Medium in [65, 85), CAUTION / High in [45, 65), AVOID / Very High in [25, 45) and
\* STRONG AVOID / Extremely High below; the confidence field is High from 65,
\* Medium in [45, 65) and Low below
C11_LabelBands ==
    pc = "scored" =>
        \E e \in {C11_Expected(recommendation.score)} :
            /\ recommendation.recommendation = e.label
            /\ recommendation.risk_level = e.risk
            /\ recommendation.confidence = e.confidence

\* a score of exactly 65 was labelled: MODERATE BUY with confidence High
C11_Witness ==
    /\ pc = "scored"
    /\ recommendation.score = 65
    /\ recommendation.recommendation = "MODERATE BUY - Medium Confidence"
    /\ recommendation.confidence = "High"

\* C12: whatever the metadata, the market snapshot and the engagement summary are,
\* the score of the recommendation is at least 0 and at most 100
C12_ScoreRange ==
    pc = "scored" => recommendation.score >= 0 /\ recommendation.score <= 100

\* every component gave its highest award and the score is exactly 100
C12_Witness ==
    /\ pc = "scored"
    /\ engagement_analysis.engagement_score >= 700
    /\ Cardinality(engagement_analysis.notable_accounts) >= 3
    /\ price_data.liquidity = <<"1","5","0",",","0","0","0">>
    /\ price_data.volume_24h = <<"1","0","0","0","0","0">>
    /\ recommendation.score = 100

\* C13: for every input the reasons hold exactly four entries, one per component,
\* in the order social, notable accounts, liquidity, volume (this is the statement of
\* the claim; a ValueError in the market block leaves one entry for the whole block
\* or puts it in the place of the volume entry)
C13_FourReasons ==
    pc = "scored" =>
        /\ Len(recommendation.reasons) = 4
        /\ recommendation.reasons[1].about = "social"
        /\ recommendation.reasons[2].about = "notable"
        /\ recommendation.reasons[3].about = "liquidity"
        /\ recommendation.reasons[4].about = "volume"

\* scenario C: the scorer was called with liquidity "150000", volume "60000" and the
\* aggregator's summary of three verified mentions, exactly one of them by a notable
\* author, with 150 likes
C16_ScenarioC ==
    /\ pc = "scored"
    /\ Len(verified_results) = 3
    /\ Cardinality({i \in 1..3 :
                       \E pattern \in notable_patterns :
                           Contains(Lower(verified_results[i].author), pattern)}) = 1
    /\ \E i \in 1..3 :
           /\ \E pattern \in notable_patterns :
                  Contains(Lower(verified_results[i].author), pattern)
           /\ verified_results[i].engagement.likes = 150
    /\ engagement_analysis = analyze_verified_social_engagement(verified_results)
    /\ price_data.liquidity = S_150000
    /\ price_data.volume_24h = S_60000

\* the engagement score of scenario C in tenths: min(100, 45 + depth + 10), depth
\* being min((likes + 2 reposts) / 10, 30)
C16_Engagement ==
    LET total_likes == SumOver(verified_results, "likes")
        total_reposts == SumOver(verified_results, "retweets")
        depth == Min(total_likes + 2 * total_reposts, 300)
    IN  Min(1000, 450 + depth + 100)

\* C16: in scenario C the engagement score is min(100, 45 + depth + 10); the social
\* component is 40 from 70 and 25 in [40, 70), the liquidity component 20, the volume
\* component 10 and the notable component 10, so the score is the social component
\* plus 40, and the label follows the cutoffs
C16_ScenarioScore ==
    C16_ScenarioC =>
        \E e \in {C16_Engagement} :
        \E social \in {IF e >= 700 THEN 40 ELSE IF e >= 400 THEN 25 ELSE 10} :
            /\ engagement_analysis.engagement_score = e
            /\ recommendation.score = social + 40
            /\ recommendation.reasons[2].kind = "some"
            /\ recommendation.reasons[3] =
                   [about |-> "liquidity", kind |-> "strong", value |-> 150000]
            /\ recommendation.reasons[4] =
                   [about |-> "volume", kind |-> "moderate", value |-> 60000]
            /\ recommendation.recommendation =
                   (IF social + 40 >= 85 THEN "STRONG BUY - High Confidence"
                    ELSE IF social + 40 >= 65 THEN "MODERATE BUY - Medium Confidence"
                    ELSE "CAUTION - Low Confidence")

\* scenario C with 150 likes and nothing else: engagement 70.0, score 80
C16_Witness ==
    /\ C16_ScenarioC
    /\ SumOver(verified_results, "likes") = 150
    /\ engagement_analysis.engagement_score = 700
    /\ recommendation.score = 80
    /\ recommendation.recommendation = "MODERATE BUY - Medium Confidence"

\* a decimal text: digits with at most one point, thousands separators aside
C17_Decimal(text) ==
    LET t == SelectSeq(text, LAMBDA c : c # ",")
        digits == SelectSeq(t, LAMBDA c : c # ".")
    IN  /\ digits # <<>>
        /\ \A i \in 1..Len(digits) : IsDigitChar(digits[i])
        /\ Len(t) - Len(digits) <= 1

\* the score of the recommendation for the inputs of the state with another
\* liquidity and another volume
C17_ScoreWith(liquidity, volume) ==
    generate_accurate_investment_recommendation(
        token_info,
        [price_data EXCEPT !.liquidity = liquidity, !.volume_24h = volume],
        engagement_analysis).score

CallsAt(site) == SelectSeq(calls, LAMBDA c : c.site = site)

\* the variable the resolver called at a site returns into
ResultAt(site) ==
    CASE site \in {"direct_token_info", "imp_token_info", "app_token_info"} -> token_info
      [] site \in {"direct_price_data", "imp_price_data", "app_price_data"} -> price_data
      [] site = "imp_search_token_info" -> search_token_info

\* the call sites of the resolvers in the run of an entry point
SitesOf(e) ==
    CASE e = "get_token_info_from_multiple_sources" -> {"direct_token_info"}
      [] e = "get_comprehensive_price_data" -> {"direct_price_data"}
      [] e = "main" -> {"app_token_info", "app_price_data"}
      [] e = "test_improved_analysis" ->
             {"imp_token_info", "imp_price_data", "imp_search_token_info"}
      [] OTHER -> {}

\* the label each provider's parser stamps into its result, by position in the list
C1_Labels(site) ==
    IF site \in TokenSites THEN <<"DexScreener", "Jupiter", "Solscan">>
    ELSE <<"DexScreener", "Jupiter">>

C2_TotalFailure ==
    \A site \in SitesOf(entry) :
        LET log == CallsAt(site)
        IN  (ResultAt(site) # None /\ \A i \in 1..Len(log) : ~log[i].ok) =>
                /\ Get(ResultAt(site), "success", TRUE) = FALSE
                /\ Get(ResultAt(site), "fallback", FALSE) = TRUE
                /\ "name" \in DOMAIN ResultAt(site) =>
                       ResultAt(site).name =
                           <<"T","o","k","e","n"," ">>
                           \o SubSeq(contract_address, 1, Min(8, Len(contract_address)))
                           \o <<".",".",".">>

\* the three metadata providers failed for an identifier that shares its first 8
\* characters with another one, and the fallback came back
C2_Witness ==
    /\ entry = "get_token_info_from_multiple_sources"
    /\ contract_address = SamePrefixContract
    /\ Len(calls) = 3
    /\ token_info # None
    /\ token_info.source = "Fallback"
    /\ token_info.name = PlaceholderName(TestContract)

\* the call sites where a resolver loops over its providers
LoopSites == ResolverSites \cup {"app_token_info"}

\* the call sites of all the resolvers
AllResolverSites == LoopSites \cup {"app_price_data"}

\* C3: no exception escapes a resolver; a failed fetch only moves the loop on to
\* the next provider; a resolver is left only with a result returned; and every
\* resolver call ends (from some point on the run is in no resolver)
C3_NeverRaises ==
    /\ [](~raised)
    /\ [][(/\ pc \in LoopSites
           /\ Len(calls') = Len(calls) + 1
           /\ ~calls'[Len(calls')].ok)
          => (/\ pc' = pc
              /\ ridx' = ridx + 1
              /\ <<token_info, price_data, search_token_info>>' =
                     <<token_info, price_data, search_token_info>>)]_vars
    /\ [][\A site \in AllResolverSites :
              (pc = site /\ pc' # site)
              => (ResultAt(site)' # None /\ "success" \in DOMAIN ResultAt(site)')]_vars
    /\ <>[](pc \notin AllResolverSites)

\* both market providers failed and the market resolver returned its fallback
C3_Witness ==
    /\ entry = "get_comprehensive_price_data"
    /\ Len(calls) = 2
    /\ ~calls[1].ok /\ ~calls[2].ok
    /\ pc = "done"
    /\ ~raised
    /\ price_data = create_fallback_price_data

(***************************************************************************)
(* Claims about the runs (checked under Spec and FairSpec).                *)
(***************************************************************************)
Runs == {"main", "test_improved_analysis"}

\* C6: in a run, no fetch and no search happens before the validator has returned
\* true for the identifier, and a run whose identifier was refused halts there
\* (this is the statement of the claim; test_improved_analysis calls the
\* resolvers without calling the validator)
C6_ValidationGate ==
    entry \in Runs =>
        /\ calls # <<>> => validated = "true"
        /\ validated = "false" =>
               /\ pc = "rejected"
               /\ calls = <<>>
               /\ token_info = None /\ price_data = None /\ recommendation = None

\* a query that quotes the identifier or a beginning of it of 8 characters or more
C18_IdentifierQuery(query) == Contains(query, Slice(contract_address, 0, 8))

\* C18: the queries sent are the first min(5, n) entries of the synthesized list, the
\* list begins with the query for the full identifier, and no symbol-based, name-based
\* or generic query is issued while a query on the identifier is left unissued (this
\* is the statement of the claim; the list has no query for the full identifier and
\* puts the symbol queries before the identifier variations)
C18_QueryOrder ==
    (entry = "test_improved_analysis" /\ pc \in {"imp_engagement", "imp_recommendation", "done"}) =>
        \E issued \in {Min(5, Len(search_queries))} :
            /\ Len(SelectSeq(calls, LAMBDA c : c.op = "search")) = issued
            /\ search_queries # <<>> => Contains(search_queries[1], contract_address)
            /\ \A i \in 1..issued : \A j \in (issued + 1)..Len(search_queries) :
                   C18_IdentifierQuery(search_queries[j]) =>
                       C18_IdentifierQuery(search_queries[i])

\* the list of providers a call site's resolver goes through
C19_Resolver(site) ==
    IF site \in {"imp_token_info", "imp_search_token_info", "app_token_info"}
    THEN "metadata" ELSE "market"

\* C19: over one run every metadata provider and every market provider is fetched at
\* most once: no retry and no second pass of a resolver (this is the statement of the
\* claim; improved_social_media_search calls the metadata resolver a second time)
C19_FetchedOnce ==
    entry \in Runs =>
        \A i, j \in 1..Len(calls) :
            (/\ i < j
             /\ calls[i].op = "fetch" /\ calls[j].op = "fetch"
             /\ C19_Resolver(calls[i].site) = C19_Resolver(calls[j].site))
                => calls[i].source # calls[j].source

\* what a complete recommendation holds
C7_Complete(r) ==
    /\ {"recommendation", "score", "risk_level", "reasons"} \subseteq DOMAIN r
    /\ r.reasons # <<>>
    /\ r.score >= 0
    /\ entry = "test_improved_analysis" => "confidence" \in DOMAIN r

C26_NoMentionsCeiling ==
    (pc = "scored" /\ engagement_analysis = analyze_verified_social_engagement(<<>>)) =>
        /\ recommendation.score <= 40
        /\ recommendation.recommendation \in {"AVOID - Very Low Confidence",
                                               "STRONG AVOID - No Confidence"}

\* the summary of the empty list was scored with strong liquidity and strong volume
C26_Witness ==
    /\ pc = "scored"
    /\ verified_results = <<>>
    /\ engagement_analysis = analyze_verified_social_engagement(<<>>)
    /\ price_data = MarketSnapshot(S_150000, <<"1","0","0","0","0","0">>)
    /\ recommendation.score = 40
    /\ recommendation.recommendation = "AVOID - Very Low Confidence"

C27_Parsed(text) == LooksNumeric(text) /\ ~FloatRaises(text)

\* C27: STRONG BUY is only given when there is a verified mention, a notable account,
\* and liquidity and volume both parse to 25,000 or more
C27_StrongBuyNeedsAll ==
    (pc = "scored" /\ recommendation.recommendation = "STRONG BUY - High Confidence") =>
        /\ Get(engagement_analysis, "authentic_mentions", 0) >= 1
        /\ Cardinality(Get(engagement_analysis, "notable_accounts", {})) >= 1
        /\ C27_Parsed(Get(price_data, "liquidity", S_Zero))
        /\ FloatFloor(Get(price_data, "liquidity", S_Zero)) >= ModerateMarket
        /\ C27_Parsed(Get(price_data, "volume_24h", S_Zero))
        /\ FloatFloor(Get(price_data, "volume_24h", S_Zero)) >= ModerateMarket

\* STRONG BUY was given with a liquidity in the moderate band
C27_Witness ==
    /\ pc = "scored"
    /\ recommendation.recommendation = "STRONG BUY - High Confidence"
    /\ recommendation.score = 90
    /\ price_data.liquidity = S_60000

\* C29: the recommendation does not depend on the token metadata; for the same market
\* data and engagement summary any other metadata gives the same label, score, risk
\* level, reasons and confidence
C29_MetadataIndependent ==
    pc = "scored" =>
        \A other \in TokenInputs :
            \E answer \in {generate_accurate_investment_recommendation(
                               other, price_data, engagement_analysis)} :
                /\ answer.recommendation = recommendation.recommendation
                /\ answer.score = recommendation.score
                /\ answer.risk_level = recommendation.risk_level
                /\ answer.reasons = recommendation.reasons
                /\ answer.confidence = recommendation.confidence

\* a recommendation was made for the fallback metadata from market data and a summary
\* that earn points
C29_Witness ==
    /\ pc = "scored"
    /\ token_info = create_fallback_token_info(TestContract)
    /\ recommendation.score = 90

(***************************************************************************)
(* Claims about the run of the analysis (checked under Spec).              *)
(***************************************************************************)
\* C25: no synthesized query is built from the symbol when the symbol is empty,
\* "UNKNOWN" or "Unknown", and none is built from the name when the name is empty,
\* "Unknown", "Unknown Token" or longer than three words
C25_SentinelGuard ==
    \A q \in 1..Len(search_queries) :
        /\ token_symbol \in {<<>>, S_UNKNOWN, S_Unknown} =>
               /\ ~Contains(search_queries[q], <<"$">>)
               /\ token_symbol # <<>> => ~Contains(search_queries[q], token_symbol)
        /\ token_name \in {<<>>, S_Unknown, S_UnknownToken} =>
               /\ ~Contains(search_queries[q], <<"\"", "\"">>)
               /\ token_name # <<>> => ~Contains(search_queries[q], token_name)

\* the call sites of the two resolvers of improved_analysis.py
C28_Sites ==
    {"direct_token_info", "direct_price_data",
     "imp_token_info", "imp_price_data", "imp_search_token_info"}

\* C28: every object a resolver returns has exactly one of success = true and
\* fallback = true: a provider result has success and no true fallback flag, the
\* fallback object has success false and fallback true
C28_SuccessXorFallback ==
    \A site \in C28_Sites \cap SitesOf(entry) :
        ResultAt(site) # None =>
            Get(ResultAt(site), "success", FALSE) # Get(ResultAt(site), "fallback", FALSE)

\* in one run the metadata resolver returned a provider result and the market
\* resolver returned the fallback object
C28_Witness ==
    /\ entry = "test_improved_analysis"
    /\ token_info # None /\ token_info.success /\ "fallback" \notin DOMAIN token_info
    /\ price_data # None /\ ~price_data.success /\ price_data.fallback

\* C30: in the result of improved_social_media_search, search_queries_used is the
\* number of searches issued, total_mentions is the length of results, and
\* verification_passed is true exactly when results is not empty
C30_ResultCounts ==
    (entry = "test_improved_analysis" /\ pc \in {"imp_engagement", "imp_recommendation", "done"}) =>
        /\ social_results.search_queries_used =
               Len(SelectSeq(calls, LAMBDA c : c.op = "search"))
        /\ social_results.total_mentions = Len(social_results.results)
        /\ social_results.verification_passed <=> social_results.results # <<>>

====
